---- MODULE Spec2Model ----
(***************************************************************************)
(* A model of the dingz adapter: the device objects the adapter builds     *)
(* from discovery, their capability resolution, the message-bus handler,   *)
(* the HTTP call wrapper and the poll reconciliation.                      *)
(*                                                                         *)
(* JavaScript values are written as strings ("true", "false", "null",      *)
(* "undefined", "3", "on", ...) so that one property store can hold every  *)
(* kind of value; Truthy gives JavaScript's truthiness of such a value.    *)
(* Network addresses are sequences of tokens so that String.includes(':')  *)
(* is computed on them.                                                    *)
(***************************************************************************)
EXTENDS Integers, Sequences, FiniteSets, TLC

VARIABLES
    objs,      \* the Dingz objects constructed so far, in construction order
    devices,   \* Adapter.devices: device id -> index in objs (0: no entry)
    calls,     \* HTTP requests in flight (fetch issued, response not yet seen)
    last,      \* the handler that ran last, with its input and its result
    poller     \* DevicePoller: its device set, timer handle and the timers set

vars == <<objs, devices, calls, last, poller>>

----------------------------------------------------------------------------
(* Bounds of the model. *)

\* Dingz objects constructed in one run.
MaxDevices == 2
\* Polls of one device that may be in flight at the same time.
MaxPolls == 1
\* Push messages one device handles, where the environment counts them.
MaxPushes == 2

----------------------------------------------------------------------------
(* JavaScript values. *)

\* The value a thermostat output id has while no heating valve is enabled
\* (this.thermostatOutput is never assigned and stays undefined).
NoOutput == -1

Undefined == <<"undefined">>
EmptyString == <<>>

\* F at the value of x: x is evaluated once, whatever F does with it.
Eval(x, F(_)) == CHOOSE y \in {F(v) : v \in {x}} : TRUE

Truthy(v) == v \notin {"false", "null", "undefined", "0", "", "NaN"}

\* !address for an address (a token sequence, '' or undefined)
NoAddress(a) == a = Undefined \/ a = EmptyString

\* A search that finds no token in an address.
IncludesNothing(a, tok) == FALSE

\* address.includes(':')
Includes(a, tok) == \E i \in 1..Len(a) : a[i] = tok

NumStr(n) == CASE n = 0 -> "0" [] n = 1 -> "1" [] n = 2 -> "2" [] n = 3 -> "3"
               [] n = 4 -> "4" [] n = 5 -> "5" [] n = 6 -> "6" [] n = 7 -> "7"
               [] OTHER -> "NaN"

\* String.prototype.toLowerCase / toUpperCase on the MAC spellings in use
ToLowerCase(s) == CASE s = "AA" -> "aa" [] s = "BB" -> "bb" [] OTHER -> s
ToUpperCase(s) == CASE s = "aa" -> "AA" [] s = "bb" -> "BB" [] OTHER -> s

\* `dingz-${mac.toLowerCase()}`
DeviceId(mac) == "dingz-" \o ToLowerCase(mac)

\* `dingz-${dingzId}` as the message handler builds it (no case folding)
TopicDeviceId(dingzId) == "dingz-" \o dingzId

\* The ids a Dingz object can have (always built with toLowerCase).
DeviceIds == {"dingz-aa", "dingz-bb"}

\* Adapter.getDevice(id): the object registered under id, 0 when none
GetDevice(id) == IF id \in DeviceIds THEN devices[id] ELSE 0

\* An adapter that finds no device registered, whatever the id.
HasDeviceNever(id) == FALSE

\* this.devices.hasOwnProperty(deviceId)
HasDevice(id) == GetDevice(id) # 0

----------------------------------------------------------------------------
(* Dingz.apiCall: the classification of what fetch produced. *)

\* A response that counts as ok whatever its status.
ResponseOkAlways(status) == TRUE

\* response.ok of node-fetch
ResponseOk(status) == status >= 200 /\ status < 300

\* What fetch can produce for one request.
Responses == {[kind |-> "response", status |-> s, body |-> b] :
                  s \in {200, 204, 304, 404, 500}, b \in {"json", "invalid"}}
FetchErrors == {[kind |-> "error", type |-> "system", code |-> "ETIMEDOUT"],
                [kind |-> "error", type |-> "system", code |-> "EHOSTUNREACH"],
                [kind |-> "error", type |-> "system", code |-> "ECONNREFUSED"],
                [kind |-> "error", type |-> "request-timeout", code |-> "undefined"]}
Outcomes == Responses \cup FetchErrors

\* A catch clause that absorbs the timeout only.
IsTimedOutOnly(outcome) ==
    /\ outcome.kind = "error"
    /\ outcome.type = "system"
    /\ outcome.code = "ETIMEDOUT"

\* The catch clause's test: a timeout or host-unreachable system error.
IsUnreachable(outcome) ==
    /\ outcome.kind = "error"
    /\ outcome.type = "system"
    /\ outcome.code \in {"ETIMEDOUT", "EHOSTUNREACH"}

\* What a rejected call carries: new Error(`${status}: ${text}`), the error
\* fetch threw, or the SyntaxError of response.json().
NoError == [kind |-> "none", status |-> 0, text |-> ""]
StatusError(status, text) == [kind |-> "status", status |-> status, text |-> text]
FetchError(outcome) == [kind |-> "fetch", status |-> 0, text |-> outcome.code]
SyntaxError == [kind |-> "syntax", status |-> 0, text |-> ""]

\* The result of apiCall(path, method) once fetch has produced `outcome`:
\* ret is "json" (the parsed body is returned), "undefined" (the call resolves
\* without a value) or "raise" (the call rejects with `error`); disconnect
\* tells whether connectedNotify(false) ran.
ApiCallResult(method, outcome) ==
    IF outcome.kind = "response"
    THEN IF ResponseOk(outcome.status) /\ outcome.status < 400
         THEN IF outcome.status # 204 /\ method # "POST"
              THEN IF outcome.body = "json"
                   THEN [ret |-> "json", disconnect |-> FALSE, error |-> NoError]
                   ELSE [ret |-> "raise", disconnect |-> FALSE, error |-> SyntaxError]
              ELSE [ret |-> "undefined", disconnect |-> FALSE, error |-> NoError]
         ELSE [ret |-> "raise", disconnect |-> FALSE,
               error |-> StatusError(outcome.status, outcome.body)]
    ELSE IF IsUnreachable(outcome)
         THEN [ret |-> "undefined", disconnect |-> TRUE, error |-> NoError]
         ELSE [ret |-> "raise", disconnect |-> FALSE, error |-> FetchError(outcome)]

\* Dingz.connectedNotify(state)
ConnectedNotify(d, state) == [d EXCEPT !.connected = state]

\* The device after apiCall has classified `outcome`.
AfterApiCall(d, method, outcome) ==
    IF ApiCallResult(method, outcome).disconnect
    THEN ConnectedNotify(d, "false")
    ELSE d

----------------------------------------------------------------------------
(* The property, action and event schema of a Dingz object. *)

\* A property object: the spec given to the constructor and the cached value.
NewProperty(type, title, readOnly, visible, minimum, maximum) ==
    [type |-> type, title |-> title, readOnly |-> readOnly, visible |-> visible,
     minimum |-> minimum, maximum |-> maximum, value |-> "null"]

\* Device.addProperty / this.properties.set(name, property)
AddProperty(d, name, property) ==
    [d EXCEPT !.props = (name :> property) @@ @]

\* Device.addAction(name, metadata); the metadata carries no visible field
AddAction(d, name, title) ==
    [d EXCEPT !.actions = (name :> [title |-> title, visible |-> "undefined"]) @@ @]

\* Device.addEvent(name, metadata)
AddEvent(d, name) == [d EXCEPT !.events = @ \cup {name}]

\* Device.hasProperty / Device.findProperty
HasProperty(d, name) == name \in DOMAIN d.props

KeyId(index) == "key" \o NumStr(index)
DimmerId(index) == "dimmer" \o NumStr(index)
ShadeId(index) == "shade" \o NumStr(index)

\* `dimmer${this.thermostatOutput + 1}`: undefined + 1 is NaN
ThermostatDimmerId(out) ==
    IF out = NoOutput THEN "dimmerNaN" ELSE DimmerId(out + 1)

\* Dingz.addKey(index)
AddKey(d0, index) ==
    Eval(d0, LAMBDA d :
    LET keyID == KeyId(index)
        d1 == AddProperty(d, keyID,
                NewProperty("boolean", "Key " \o NumStr(index), TRUE, TRUE,
                            "undefined", "undefined"))
    IN [d1 EXCEPT !.events = @ \cup {keyID \o "single", keyID \o "double",
                                      keyID \o "tripple", keyID \o "quadruple",
                                      keyID \o "long"}])

\* this.visible after BasicDingzProperty's constructor, for a spec that asks
\* for `visible`: the message-bus build takes spec.visible, the webhook build
\* assigns true whatever the spec says.
SpecVisible(build, visible) == IF build = "webhook" THEN TRUE ELSE visible

\* Dingz.addDimmer(index)
AddDimmer(d0, index) ==
    Eval(d0, LAMBDA d :
    LET dimmerID == DimmerId(index)
        visible == (index - 1) # d.thermostatOutput
        d1 == AddProperty(d, dimmerID,
                NewProperty("boolean", "Dimmer " \o NumStr(index), FALSE,
                            SpecVisible(d.build, visible), "undefined", "undefined"))
        d2 == AddProperty(d1, dimmerID \o "Brightness",
                NewProperty("integer", "Dimmer " \o NumStr(index) \o " Brightness",
                            FALSE, SpecVisible(d.build, visible), "0", "100"))
        d3 == AddProperty(d2, dimmerID \o "Power",
                NewProperty("number", "Dimmer " \o NumStr(index) \o " Power",
                            TRUE, TRUE, "0", "300"))
    IN IF visible
       THEN AddAction(d3, dimmerID \o "toggle", "Toggle dimmer " \o NumStr(index))
       ELSE d3)

\* Dingz.addShade(index)
AddShade(d0, index) ==
    Eval(d0, LAMBDA d :
    LET shadeID == ShadeId(index)
        n == NumStr(index)
        d1 == AddProperty(d, shadeID,
                NewProperty("integer", "Shade " \o n \o " Position", FALSE, TRUE,
                            "0", "100"))
        d2 == AddProperty(d1, shadeID \o "Lamella",
                NewProperty("integer", "Shade " \o n \o " Lamella", FALSE, TRUE,
                            "0", "100"))
        d3 == AddProperty(d2, shadeID \o "Power",
                NewProperty("number", "Shade " \o n \o " Power", TRUE, TRUE,
                            "0", "300"))
        d4 == AddAction(d3, shadeID \o "up", "Shade " \o n \o " up")
        d5 == AddAction(d4, shadeID \o "down", "Shade " \o n \o " down")
    IN AddAction(d5, shadeID \o "stop", "Shade " \o n \o " stop"))

----------------------------------------------------------------------------
(* Dingz constructor: capability resolution and schema registration. *)

\* The configuration queries whose answers define the schema.
CapabilityPaths == {"system_config", "device", "thermostat", "outputs"}

\* The configuration queries of a build: the webhook build reads the
\* thermostat's output from the thermostat query and does not ask for the
\* outputs.
CapabilityQueries(build) ==
    IF build = "webhook" THEN {"system_config", "device", "thermostat"}
    ELSE CapabilityPaths

\* The Dingz object right after the synchronous part of the constructor.
NewDevice(mac, address, hw, build) ==
    [puck |-> hw,             \* the puck that answers this object's requests
     build |-> build,         \* the adapter build that constructed the object
     id |-> DeviceId(mac),
     mac |-> ToUpperCase(mac),
     address |-> address,
     connected |-> "true",
     deviceType |-> "undefined",
     title |-> "undefined",
     resolved |-> {},          \* capability queries whose handler has run
     rejected |-> FALSE,       \* a promise of the constructor chain rejected
     phase |-> "resolving",    \* resolving, detail, announced
     detail |-> {},            \* detail fetches issued and not yet answered
     config |-> <<>>,          \* detail fetch -> the configuration it returned
     shade1 |-> FALSE, shade2 |-> FALSE,
     dimmerGroup1 |-> FALSE, dimmerGroup2 |-> FALSE,
     motionSensor |-> FALSE,
     thermostat |-> FALSE,
     thermostatOutput |-> NoOutput,
     listener |-> "undefined", \* the id the web endpoint knows the object by
     pushes |-> 0,             \* push messages handled, where they are counted
     props |-> <<>>,
     actions |-> <<>>,
     events |-> {}]

\* The detail fetches, and every path apiCall is given in this model.
DetailFetches == {"blind_config", "dimmer_config"}
Paths == CapabilityPaths \cup DetailFetches \cup {"services_config", "state", "action"}

\* A device query that finds both shutters whatever the configuration code.
ApplyCapabilityBothShutters(d, path, hw) ==
    IF path = "device"
    THEN [d EXCEPT !.shade1 = TRUE, !.shade2 = TRUE,
                   !.dimmerGroup1 = (hw.dip = 1 \/ hw.dip = 3),
                   !.dimmerGroup2 = (hw.dip >= 2),
                   !.motionSensor = hw.has_pir]
    ELSE d

\* The then-handler of one capability query, given the device's answers.
ApplyCapability(d, path, hw) ==
    CASE path = "system_config" -> [d EXCEPT !.title = hw.name]
      [] path = "device" ->
            [d EXCEPT !.shade1 = (hw.dip = 0 \/ hw.dip = 2),
                      !.shade2 = (hw.dip <= 1),
                      !.dimmerGroup1 = (hw.dip = 1 \/ hw.dip = 3),
                      !.dimmerGroup2 = (hw.dip >= 2),
                      !.motionSensor = hw.has_pir]
      [] path = "thermostat" ->
            IF d.build = "webhook"
            THEN [d EXCEPT !.thermostat = hw.active, !.thermostatOutput = hw.out]
            ELSE [d EXCEPT !.thermostat = hw.active]
      [] path = "outputs" ->
            IF hw.valve # NoOutput /\ hw.valveEnable
            THEN [d EXCEPT !.thermostatOutput = hw.valve]
            ELSE d

\* The thermostat part of the schema.
AddThermostat(d0) ==
    Eval(d0, LAMBDA d :
    LET d1 == AddProperty(d, "targetTemperature",
                NewProperty("number", "Target Temperature", FALSE, TRUE, "-55", "125"))
        d2 == AddProperty(d1, "thermostatMode",
                NewProperty("string", "Thermostat Mode", FALSE, TRUE,
                            "undefined", "undefined"))
        d3 == AddProperty(d2, "thermostatState",
                NewProperty("string", "Thermostat State", TRUE, TRUE,
                            "undefined", "undefined"))
        power == ThermostatDimmerId(d.thermostatOutput) \o "Power"
    IN IF ~HasProperty(d3, power)
       THEN AddProperty(d3, power,
                NewProperty("number", "Thermostat Valve Power", TRUE, TRUE, "0", "300"))
       ELSE [d3 EXCEPT !.props[power].title = "Thermostat Valve Power"])

\* The then-handler that runs when all capability queries have answered:
\* it registers the properties, actions and events.
RegisterSchema(d0) ==
    Eval(d0, LAMBDA d :
    LET d1 == AddProperty(d, "led",
                NewProperty("boolean", "LED", FALSE, TRUE, "undefined", "undefined"))
        d2 == AddProperty(d1, "ledColor",
                NewProperty("string", "LED Color", FALSE, TRUE, "undefined", "undefined"))
        d3 == AddProperty(d2, "lightLevel",
                NewProperty("integer", "Brightness", TRUE, TRUE, "0", "undefined"))
        d4 == AddProperty(d3, "temperature",
                NewProperty("number", "Temperature", TRUE, TRUE, "undefined", "undefined"))
        d5 == AddKey(AddKey(AddKey(AddKey(d4, 1), 2), 3), 4)
        d6 == IF d.dimmerGroup1 THEN AddDimmer(AddDimmer(d5, 1), 2) ELSE d5
        d7 == IF d.dimmerGroup2 THEN AddDimmer(AddDimmer(d6, 3), 4) ELSE d6
        d8 == IF d.shade1 THEN AddShade(d7, 1) ELSE d7
        d9 == IF d.shade2 THEN AddShade(d8, 2) ELSE d8
        d10 == IF d.motionSensor
               THEN AddProperty(d9, "motion",
                        NewProperty("boolean", "Motion", TRUE, TRUE,
                                    "undefined", "undefined"))
               ELSE d9
    IN IF d.thermostat THEN AddThermostat(d10) ELSE d10)

\* The requests registerEventListener sends one after the other: the generic
\* callback and begin and end of each of the four buttons.
EventListenerCalls == 9

\* WebEventEndpoint.addDevice(device), called by the webhook build's schema
\* handler through registerEventListener: the endpoint (its server running)
\* knows object o under a new id.
AddListener(d, o) ==
    IF d.build = "webhook" THEN [d EXCEPT !.listener = "hook" \o NumStr(o)] ELSE d

\* The path that stands for registerEventListener's requests.
EventListenerPaths(d) == IF d.build = "webhook" THEN {"action"} ELSE {}

\* The detail fetches the schema handler issues.
DetailPaths(d) ==
    (IF d.shade1 \/ d.shade2 THEN {"blind_config"} ELSE {})
    \cup (IF d.dimmerGroup1 \/ d.dimmerGroup2 THEN {"dimmer_config"} ELSE {})

\* Dingz.setShadeConfig(index, config)
SetShadeConfig(d0, index, config) ==
    Eval(d0, LAMBDA d :
    LET shadeConfig == config.blinds[index]
        shadeID == ShadeId(index)
        lamella == IF d.build = "webhook" THEN shadeConfig.type = "lamella_90"
                   ELSE shadeConfig.type = "blind"
        d1 == [d EXCEPT !.props[shadeID \o "Lamella"].visible = lamella,
                        !.props[shadeID].minimum = shadeConfig.min_value,
                        !.props[shadeID].maximum = shadeConfig.max_value]
    IN IF shadeConfig.name # ""
       THEN [d1 EXCEPT !.props[shadeID].title = shadeConfig.name,
                       !.props[shadeID \o "Lamella"].title = shadeConfig.name \o " Lamella",
                       !.props[shadeID \o "Power"].title = shadeConfig.name \o " Power",
                       !.actions[shadeID \o "up"].title = shadeConfig.name \o " up",
                       !.actions[shadeID \o "down"].title = shadeConfig.name \o " down",
                       !.actions[shadeID \o "stop"].title = "Stop " \o shadeConfig.name]
       ELSE d1)

\* Map.delete(key)
MapDelete(f, key) == [k \in DOMAIN f \ {key} |-> f[k]]

\* Dingz.setDimmerConfig(index, dimmerConfig)
SetDimmerConfig(d0, index, dimmerConfig) ==
    Eval(d0, LAMBDA d :
    IF index - 1 # d.thermostatOutput
    THEN LET config == dimmerConfig.dimmers[index]
             visible == IF d.build = "webhook" THEN config.output # "not_connected"
                        ELSE config.active /\ config.type = "light"
             dimmerID == DimmerId(index)
             d1 == [d EXCEPT !.props[dimmerID].visible = visible,
                             !.props[dimmerID \o "Brightness"].visible = visible,
                             !.props[dimmerID \o "Power"].visible = visible,
                             !.actions[dimmerID \o "toggle"].visible =
                                 IF visible THEN "true" ELSE "false"]
             d2 == IF config.name # ""
                   THEN [d1 EXCEPT
                           !.props[dimmerID].title = config.name,
                           !.props[dimmerID \o "Brightness"].title = config.name \o " Brightness",
                           !.props[dimmerID \o "Power"].title = config.name \o " Power",
                           !.actions[dimmerID \o "toggle"].title = "Toggle " \o config.name]
                   ELSE d1
         IN IF ~visible
            THEN [d2 EXCEPT !.actions = MapDelete(@, dimmerID \o "toggle")]
            ELSE d2
    ELSE d)

\* The then-handler that runs when the detail fetches have answered, up to
\* and without the announcement: config maps a detail path to what its fetch
\* returned, and has no entry for a fetch that resolved without a value.
ApplyDetails(d0) ==
    Eval(d0, LAMBDA d :
    LET has(path) == path \in DOMAIN d.config
        b == d.config["blind_config"]
        c == d.config["dimmer_config"]
        d1 == IF has("blind_config") /\ d.shade1 THEN SetShadeConfig(d, 1, b) ELSE d
        d2 == IF has("blind_config") /\ d.shade2 THEN SetShadeConfig(d1, 2, b) ELSE d1
        d3 == IF has("dimmer_config") /\ d.dimmerGroup1
              THEN SetDimmerConfig(SetDimmerConfig(d2, 1, c), 2, c) ELSE d2
    IN IF has("dimmer_config") /\ d.dimmerGroup2
       THEN SetDimmerConfig(SetDimmerConfig(d3, 3, c), 4, c) ELSE d3)

\* A serialization that leaves nothing out.
AsDictUnfiltered(d) == [properties |-> d.props, actions |-> d.actions]

\* Dingz.asDict(): the properties and actions of Device.asDict() without
\* those whose visible is false.
AsDict(d) ==
    [properties |-> [n \in {k \in DOMAIN d.props : d.props[k].visible # FALSE}
                        |-> d.props[n]],
     actions |-> [a \in {k \in DOMAIN d.actions : d.actions[k].visible # "false"}
                     |-> d.actions[a]]]

----------------------------------------------------------------------------
(* Property.setCachedValueAndNotify and the values pushed or polled. *)

\* A store that flips a boolean property on every truthy write.
CoerceFlip(property, value) ==
    IF property.type = "boolean"
    THEN (IF Truthy(value) /\ property.value # "true" THEN "true" ELSE "false")
    ELSE value

\* Property.setCachedValue: a boolean property stores !!value
Coerce(property, value) ==
    IF property.type = "boolean"
    THEN (IF Truthy(value) THEN "true" ELSE "false")
    ELSE value

\* A store that makes a string property of a name the device does not have.
SetCachedValueOrAdd(d0, name, value) ==
    Eval(d0, LAMBDA d :
    IF HasProperty(d, name)
    THEN [d EXCEPT !.props[name].value = Coerce(d.props[name], value)]
    ELSE AddProperty(d, name, [NewProperty("string", name, FALSE, TRUE,
                                           "undefined", "undefined")
                                  EXCEPT !.value = value]))

\* this.findProperty(name)?.setCachedValueAndNotify(value)
SetCachedValueAndNotify(d0, name, value) ==
    Eval(d0, LAMBDA d :
    IF HasProperty(d, name)
    THEN [d EXCEPT !.props[name].value = Coerce(d.props[name], value)]
    ELSE d)

\* A handler's progress: the device, the events it has fired so far and
\* whether it has thrown (a handler that has thrown does nothing more).
Running(d) == [dev |-> d, events |-> <<>>, threw |-> FALSE]

\* this.findProperty(name).setCachedValueAndNotify(value), which throws a
\* TypeError when the property does not exist
SetOrThrow(r0, name, value) ==
    Eval(r0, LAMBDA r :
    IF r.threw THEN r
    ELSE IF HasProperty(r.dev, name)
         THEN [r EXCEPT !.dev = SetCachedValueAndNotify(r.dev, name, value)]
         ELSE [r EXCEPT !.threw = TRUE])

\* this.findProperty(name)?.setCachedValueAndNotify(value) in a handler
SetIfPresent(r0, name, value) ==
    Eval(r0, LAMBDA r :
    IF r.threw THEN r
    ELSE [r EXCEPT !.dev = SetCachedValueAndNotify(r.dev, name, value)])

\* this.eventNotify(new Event(this, name))
EventNotify(r0, name) ==
    Eval(r0, LAMBDA r :
    IF r.threw THEN r ELSE [r EXCEPT !.events = Append(@, name)])

Throw(r) == [r EXCEPT !.threw = TRUE]

----------------------------------------------------------------------------
(* DingzMQTT: decoding of a message payload. *)

\* Decoded payloads: t is the JavaScript type, v the value of a primitive,
\* f the fields of an object.
Prim(t, v) == [t |-> t, v |-> v, f |-> <<>>]
Obj(f) == [t |-> "object", v |-> "[object]", f |-> f]
Null == [t |-> "null", v |-> "null", f |-> <<>>]

\* message.<name> for a decoded payload that is not null
Field(m, name) ==
    IF m.t = "object" /\ name \in DOMAIN m.f THEN m.f[name] ELSE "undefined"

\* A payload read that finds no ip field.
FieldIpMissing(m) == Undefined

\* message.ip, an address
FieldIp(m) ==
    IF m.t = "object" /\ "ip" \in DOMAIN m.f THEN m.f["ip"] ELSE Undefined

\* messageString.startsWith('m') on the tokens in use
StartsWithM(s) == s \in {"m1", "m2", "m3", "m4", "m5", "mx"}

\* topic.endsWith("state/thermostat")
EndsWithStateThermostat(path) ==
    Len(path) >= 2 /\ path[Len(path) - 1] = "state" /\ path[Len(path)] = "thermostat"

\* The try/catch around JSON.parse in the message handler. A raw payload is
\* valid JSON text (kind "json", with its parse), text that becomes valid JSON
\* once '"target:"' is replaced by '"target":' (kind "target:", with the
\* parse of the repaired text) or any other text (kind "text").
\* The result is the parsed message, or dropped.
ParseMessage(path, raw) ==
    IF raw.kind = "json" THEN [dropped |-> FALSE, message |-> raw.parse]
    ELSE IF raw.kind = "target:" /\ EndsWithStateThermostat(path)
    THEN [dropped |-> FALSE, message |-> raw.parse]
    ELSE IF raw.text \in {"s", "ss", "n"}
    THEN [dropped |-> FALSE,
          message |-> Prim("boolean", IF raw.text # "n" THEN "true" ELSE "false")]
    ELSE IF raw.text \in {"p", "h", "r"} \/ StartsWithM(raw.text)
    THEN [dropped |-> FALSE, message |-> Prim("string", raw.text)]
    ELSE [dropped |-> TRUE, message |-> Null]

Json(m) == [kind |-> "json", text |-> "", parse |-> m]
Text(s) == [kind |-> "text", text |-> s, parse |-> Null]
BrokenThermostatJson(m) == [kind |-> "target:", text |-> "{target:}", parse |-> m]

----------------------------------------------------------------------------
(* Dingz.mqttEvent(path, message) *)

\* parseInt(segment, 10) on the path segments in use
IsNumeral(seg) == seg \in {"0", "1", "2", "3", "4", "5", "6"}
ParseInt(seg) == CASE seg = "0" -> 0 [] seg = "1" -> 1 [] seg = "2" -> 2
                   [] seg = "3" -> 3 [] seg = "4" -> 4 [] seg = "5" -> 5
                   [] seg = "6" -> 6

\* `${parseInt(details[1], 10) + 1}`
IndexPlusOne(seg) == IF IsNumeral(seg) THEN NumStr(ParseInt(seg) + 1) ELSE "NaN"

\* this.findProperty(name)?.setCachedValueAndNotify(<expression on message>):
\* the argument is evaluated only when the property exists, and evaluating it
\* throws when the message is null
SetFromMessage(r0, name, message, value) ==
    Eval(r0, LAMBDA r :
    IF r.threw \/ ~HasProperty(r.dev, name) THEN r
    ELSE IF message.t = "null" THEN Throw(r)
    ELSE SetIfPresent(r, name, value))

\* number.toString(16).padStart(2, '0') on the channel values in use
Hex2(v) == CASE v = "0" -> "00" [] v = "16" -> "10" [] v = "128" -> "80"
             [] v = "255" -> "ff" [] OTHER -> "??"

\* case "button" of mqttEvent
ButtonEvent(r0, details1, message) ==
    Eval(r0, LAMBDA r :
    LET keyID == "key" \o IndexPlusOne(details1)
        is(s) == message.t = "string" /\ message.v = s
        press(name) == SetOrThrow(EventNotify(r, keyID \o name), keyID, "false")
    IN IF keyID = "key5" THEN r
       ELSE IF is("p") THEN SetOrThrow(r, keyID, "true")
       ELSE IF is("m1") THEN press("single")
       ELSE IF is("m2") THEN press("double")
       ELSE IF is("m3") THEN press("tripple")
       ELSE IF is("h") THEN r
       ELSE IF is("r") THEN press("long")
       ELSE IF message.t # "string" THEN Throw(r)
       ELSE IF StartsWithM(message.v) THEN SetOrThrow(r, keyID, "false")
       ELSE r)

\* case "state" of mqttEvent
StateEvent(r0, details0, details1, message) ==
    Eval(r0, LAMBDA r :
    LET index == IndexPlusOne(details1)
    IN CASE details0 = "light" ->
              SetFromMessage(
                  SetFromMessage(r, "dimmer" \o index, message,
                      IF Field(message, "turn") = "off" THEN "true" ELSE "false"),
                  "dimmer" \o index \o "Brightness", message, Field(message, "brightness"))
         [] details0 = "thermostat" ->
              SetFromMessage(
                  SetFromMessage(
                      SetFromMessage(r, "thermostatMode", message, Field(message, "status")),
                      "thermostatState", message,
                      IF Field(message, "status") = "on"
                      THEN Field(message, "mode") ELSE "off"),
                  "targetTemperature", message, Field(message, "target"))
         [] details0 = "motor" ->
              SetFromMessage(
                  SetFromMessage(r, "shade" \o index, message, Field(message, "position")),
                  "shade" \o index \o "Lamella", message, Field(message, "lamella"))
         [] details0 = "led" ->
              LET r1 == SetFromMessage(r, "led", message,
                            IF Field(message, "on") = "1" THEN "true" ELSE "false")
              IN IF r1.threw \/ ~HasProperty(r1.dev, "ledColor") THEN r1
                 ELSE IF \E ch \in {"r", "g", "b"} : Field(message, ch) = "undefined"
                 THEN Throw(r1)
                 ELSE SetIfPresent(r1, "ledColor",
                          "#" \o Hex2(Field(message, "r")) \o Hex2(Field(message, "g"))
                              \o Hex2(Field(message, "b")))
         [] OTHER -> r)

\* The switch on the event segment, after this.deviceType has been set.
DispatchEvent(r0, event, details0, details1, message) ==
    Eval(r0, LAMBDA r :
    CASE event = "sensor" ->
           (CASE details0 = "temperature" -> SetIfPresent(r, "temperature", message.v)
              [] details0 = "light" -> SetIfPresent(r, "lightLevel", message.v)
              [] OTHER -> r)
      [] event = "power" ->
           (CASE details0 = "motor" ->
                   SetIfPresent(r, "shade" \o IndexPlusOne(details1) \o "Power", message.v)
              [] details0 = "light" ->
                   SetIfPresent(r, "dimmer" \o IndexPlusOne(details1) \o "Power", message.v)
              [] OTHER -> r)
      [] event = "state" -> StateEvent(r, details0, details1, message)
      [] event = "event" ->
           (CASE details0 = "button" -> ButtonEvent(r, details1, message)
              [] details0 = "pir" ->
                   IF details1 = "0" THEN SetIfPresent(r, "motion", message.v) ELSE r
              [] OTHER -> r)
      [] OTHER -> r)

\* path.split('/')[i], "undefined" past the end
Segment(path, i) == IF i <= Len(path) THEN path[i] ELSE "undefined"

\* Dingz.mqttEvent(path, message): the handler's progress when it returns.
MqttEvent(d0, path, message) ==
    Eval(d0, LAMBDA d :
    LET deviceType == IF Len(path) >= 1 THEN path[1] ELSE ""
        r == Running(d)
    IN IF deviceType = "online"
       THEN [r EXCEPT !.dev = ConnectedNotify(d, message.v)]
       ELSE IF deviceType = "announce"
       THEN IF message.t = "null" THEN Throw(r)
            ELSE [r EXCEPT !.dev.address = FieldIp(message),
                           !.dev.deviceType = Field(message, "model")]
       ELSE IF deviceType = "last_alive" THEN r
       ELSE DispatchEvent([r EXCEPT !.dev.deviceType = deviceType],
                          Segment(path, 2), Segment(path, 3), Segment(path, 4), message))

----------------------------------------------------------------------------
(* The webhook build: WebEventEndpoint.handleEvent and
   Dingz.handleGenericEvent. *)

\* Dingz.updateFromDiscovery(address)
UpdateFromDiscovery(d0, address) ==
    Eval(d0, LAMBDA d :
    LET d1 == ConnectedNotify(d, "true")
    IN IF ~NoAddress(address) /\ ~Includes(address, ":")
       THEN [d1 EXCEPT !.address = address]
       ELSE d1)

\* An event handler that does nothing.
HandleNoGenericEvent(r0, index, action) == r0

\* Dingz.handleGenericEvent(index, action), with index and action the strings
\* of the request body ("undefined" for a field the body lacks).
HandleGenericEvent(r0, index, action) ==
    Eval(r0, LAMBDA r :
    IF IsNumeral(index) /\ ParseInt(index) <= 4
    THEN LET keyID == "key" \o index
         IN CASE action = "1" -> EventNotify(r, keyID \o "single")
              [] action = "2" -> EventNotify(r, keyID \o "double")
              [] action = "3" -> EventNotify(r, keyID \o "long")
              [] action = "20" -> EventNotify(r, keyID \o "tripple")
              [] action = "21" -> EventNotify(r, keyID \o "quadruple")
              [] action \in {"8", "begin"} -> SetOrThrow(r, keyID, "true")
              [] action \in {"9", "end"} -> SetOrThrow(r, keyID, "false")
              [] OTHER -> r
    ELSE IF IsNumeral(index) /\ ParseInt(index) = 5
    THEN CASE action = "8" -> SetOrThrow(r, "motion", "true")
           [] action = "9" -> SetOrThrow(r, "motion", "false")
           [] OTHER -> r
    ELSE r)

\* request.body.<field> is truthy: the urlencoded body has the field, and
\* not as the empty string
BodyHas(v) == v \notin {"undefined", ""}

\* What handleEvent leaves: the device, the events fired and the response,
\* which is a status, "none" when the handler returns without answering,
\* "failed" when mac.toLowerCase() throws on a body without mac, or "threw"
\* when handleGenericEvent throws; in the last two cases handleEvent sends
\* no status itself.
Answered(r, status) ==
    [dev |-> r.dev, events |-> r.events,
     response |-> IF r.threw THEN "threw" ELSE status]

\* WebEventEndpoint.handleEvent(request, response) for a request whose
\* listener id stands for device d, in the version of the endpoint that
\* checks the request ("strict") and in the one that does not ("lenient").
HandleEvent(version, d0, body, ip) ==
    Eval(d0, LAMBDA d :
    LET r == Running(d)
    IN IF version = "strict" /\ ~BodyHas(body.index) THEN Answered(r, "401")
       ELSE IF body.mac = "undefined" THEN Answered(r, "failed")
       ELSE IF version = "strict"
       THEN IF d.id # DeviceId(body.mac) THEN Answered(r, "none")
            ELSE Answered(HandleGenericEvent(
                              [r EXCEPT !.dev = UpdateFromDiscovery(d, ip)],
                              body.index, body.action), "204")
       ELSE Answered(HandleGenericEvent(r, body.index, body.action), "204"))

----------------------------------------------------------------------------
(* Dingz.poll(): reconciliation of a full-state snapshot. *)

HexDigit(n) == CASE n = 0 -> "0" [] n = 1 -> "1" [] n = 2 -> "2" [] n = 3 -> "3"
                 [] n = 4 -> "4" [] n = 5 -> "5" [] n = 6 -> "6" [] n = 7 -> "7"
                 [] n = 8 -> "8" [] n = 9 -> "9" [] n = 10 -> "A" [] n = 11 -> "B"
                 [] n = 12 -> "C" [] n = 13 -> "D" [] n = 14 -> "E" [] n = 15 -> "F"

\* n.toString(16).padStart(2, '0'), upper-cased, for 0 <= n <= 255
Hex2Upper(n) == HexDigit(n \div 16) \o HexDigit(n % 16)

\* hsv2rgb(hsv), with the string "h;s;v" given as its three integers. The
\* channel values are the exact floors of the channel formula.
hsv2rgb(hsv) ==
    LET ha == hsv[1]
        s == hsv[2]
        v == hsv[3]
        k == IF (ha % 120) >= 60 THEN (ha % 120) - 60 ELSE 60 - (ha % 120)
        \* (c + m) * 255, (x + m) * 255 and m * 255
        hi == (255 * v) \div 100
        mid == ((v * s * (60 - k) + 60 * (100 * v - v * s)) * 255) \div 600000
        lo == ((100 * v - v * s) * 255) \div 10000
        rgb == IF ha < 60 THEN <<hi, mid, lo>>
               ELSE IF ha < 120 THEN <<mid, hi, lo>>
               ELSE IF ha < 180 THEN <<lo, hi, mid>>
               ELSE IF ha < 240 THEN <<lo, mid, hi>>
               ELSE IF ha < 300 THEN <<mid, lo, hi>>
               ELSE <<hi, lo, mid>>
    IN Hex2Upper(rgb[1]) \o Hex2Upper(rgb[2]) \o Hex2Upper(rgb[3])

\* THERMOSTAT_STATE_TO_MODE[mode]
ThermostatStateToMode(mode) ==
    CASE mode = "heating" -> "heat" [] mode = "cooling" -> "cool" [] OTHER -> "undefined"

\* state.sensors.power_outputs[index].value, which throws past the end
HasPowerOutput(state, index) == index >= 0 /\ index < Len(state.power_outputs)
PowerOutput(state, index) == state.power_outputs[index + 1]

\* A loop over state.dimmers that applies every dimmer of the snapshot.
DimmerIsPolledAlways(d, dimmer) == TRUE

\* The condition under which the loop over state.dimmers applies a dimmer.
DimmerIsPolled(d, dimmer) ==
    (dimmer.absolute > 1 /\ d.dimmerGroup2) \/ (dimmer.absolute <= 1 /\ d.dimmerGroup1)

\* The body of the loop over state.dimmers for one dimmer.
PollDimmer(d, r0, state, dimmer) ==
    Eval(r0, LAMBDA r :
    IF r.threw THEN r
    ELSE IF DimmerIsPolled(d, dimmer)
    THEN LET dimmerID == DimmerId(dimmer.absolute + 1)
             r1 == SetOrThrow(r, dimmerID, dimmer.on)
             r2 == SetOrThrow(r1, dimmerID \o "Brightness", dimmer.value)
         IN IF HasPowerOutput(state, dimmer.absolute)
            THEN SetOrThrow(r2, dimmerID \o "Power", PowerOutput(state, dimmer.absolute))
            ELSE Throw(r2)
    ELSE r)

\* The body of the loop over state.blinds for one blind.
PollBlind(d, r0, state, blind) ==
    Eval(r0, LAMBDA r :
    IF r.threw THEN r
    ELSE IF (blind.absolute = 0 /\ d.shade1) \/ (blind.absolute = 1 /\ d.shade2)
    THEN LET shadeID == ShadeId(blind.absolute + 1)
             baseIndex == blind.absolute * 2
             r1 == SetOrThrow(r, shadeID, blind.position)
             r2 == SetOrThrow(r1, shadeID \o "Lamella", blind.lamella)
         IN IF HasPowerOutput(state, baseIndex) /\ HasPowerOutput(state, baseIndex + 1)
            THEN LET motor1Power == PowerOutput(state, baseIndex)
                     motor2Power == PowerOutput(state, baseIndex + 1)
                 IN SetOrThrow(r2, shadeID \o "Power",
                        IF Truthy(motor1Power) THEN motor1Power ELSE motor2Power)
            ELSE Throw(r2)
    ELSE r)

RECURSIVE PollDimmers(_, _, _, _)
PollDimmers(d, r, state, i) ==
    IF i > Len(state.dimmers) THEN r
    ELSE PollDimmers(d, PollDimmer(d, r, state, state.dimmers[i]), state, i + 1)

RECURSIVE PollBlinds(_, _, _, _)
PollBlinds(d, r, state, i) ==
    IF i > Len(state.blinds) THEN r
    ELSE PollBlinds(d, PollBlind(d, r, state, state.blinds[i]), state, i + 1)

\* The thermostat part of poll().
PollThermostat(d, r0, state) ==
    Eval(r0, LAMBDA r :
    IF r.threw \/ ~(state.thermostat.active /\ d.thermostat) THEN r
    ELSE LET t == state.thermostat
             r1 == SetOrThrow(r, "targetTemperature", t.target_temp)
             r2 == IF r1.threw THEN r1
                   ELSE [r1 EXCEPT !.dev.props["targetTemperature"].minimum = t.min_target_temp,
                                   !.dev.props["targetTemperature"].maximum = t.max_target_temp]
             r3 == SetOrThrow(r2, "thermostatMode",
                       IF t.enabled THEN ThermostatStateToMode(t.mode) ELSE "off")
             r4 == SetOrThrow(r3, "thermostatState", IF t.on THEN t.mode ELSE "off")
             out == IF d.build = "webhook" THEN t.out ELSE d.thermostatOutput
         IN IF HasPowerOutput(state, out)
            THEN SetOrThrow(r4, ThermostatDimmerId(out) \o "Power", PowerOutput(state, out))
            ELSE Throw(r4))

\* A poll that drops the snapshot it has received.
ApplyNoSnapshot(d0, state) == Running(d0)

\* The part of poll() after `state` has been received.
ApplySnapshot(d0, state) ==
    Eval(d0, LAMBDA d :
    LET r0 == Running(d)
        r1 == IF state.brightness # "null"
              THEN SetOrThrow(r0, "lightLevel", state.brightness) ELSE r0
        r2 == IF state.hasRoomTemperature
              THEN SetOrThrow(r1, "temperature", state.room_temperature) ELSE r1
        r3 == SetOrThrow(r2, "led", state.led.on)
        color == IF state.led.mode = "hsv" THEN hsv2rgb(state.led.hsv) ELSE state.led.rgb
        r4 == SetOrThrow(r3, "ledColor", "#" \o color)
        r5 == PollDimmers(d, r4, state, 1)
        r6 == PollBlinds(d, r5, state, 1)
    IN PollThermostat(d, r6, state))

----------------------------------------------------------------------------
(* The handlers as steps of the adapter. *)

\* An HTTP request in flight. A poll's request also carries the snapshot the
\* device answers with (the device reads its state when the request arrives)
\* and the properties a push message has written since.
NoSnapshot == [none |-> TRUE]
Call(o, path, method) ==
    [obj |-> o, path |-> path, method |-> method, slot |-> 0,
     snap |-> NoSnapshot, stale |-> {}]

\* The order in which the constructor sends its requests.
Rank(path) == CASE path = "services_config" -> 1 [] path = "system_config" -> 2
                [] path = "device" -> 3 [] path = "thermostat" -> 4
                [] path = "outputs" -> 5 [] path = "blind_config" -> 6
                [] path = "dimmer_config" -> 7 [] path = "action" -> 8 [] OTHER -> 9

\* Whether the response to request c may arrive now: in any order, or, in an
\* environment whose pucks answer one request after the other, when no
\* earlier request of the same object is unanswered.
MayArrive(E, c) ==
    E.inOrder => \A other \in calls :
                     other.obj = c.obj => Rank(other.path) >= Rank(c.path)

\* What `last` records of a handler run; again tells, where the push
\* messages are counted, that a push message is the one the same device has
\* handled just before; sent lists the transport calls a command has made.
NoDict == [properties |-> <<>>, actions |-> <<>>]
Ran(op, o, arg, ret, events) ==
    [op |-> op, obj |-> o, arg |-> arg, ret |-> ret, events |-> events,
     error |-> NoError, dict |-> NoDict, again |-> FALSE, sent |-> <<>>]

\* What `last` records of an apiCall that has settled.
RanApiCall(c, outcome) ==
    [Ran("apiCall", c.obj, [path |-> c.path, method |-> c.method, outcome |-> outcome],
         ApiCallResult(c.method, outcome).ret, <<>>)
        EXCEPT !.error = ApiCallResult(c.method, outcome).error]

\* DevicePoller before any device: no timer handle, no device, no lookup of
\* the poll interval pending, no timer made by setInterval.
NoPoller == [timer |-> 0, devices |-> {}, lookups |-> 0, made |-> 0, active |-> {}]

\* DevicePoller.addDevice(device): the device joins the set, and without a
\* timer handle a lookup of the poll interval is started.
AddDevice(p, o) ==
    [p EXCEPT !.devices = @ \cup {o},
              !.lookups = IF p.timer = 0 THEN @ + 1 ELSE @]

\* The poller after DingzAdapter.handleDeviceAdded(device): the webhook
\* build adds the device to the poller, the message-bus build has no poller.
AfterDeviceAdded(p, d, o) == IF d.build = "webhook" THEN AddDevice(p, o) ELSE p

Init ==
    /\ objs = <<>>
    /\ devices = [id \in DeviceIds |-> 0]
    /\ calls = {}
    /\ last = Ran("init", 0, <<>>, "undefined", <<>>)
    /\ poller = NoPoller

\* new Dingz(adapter, deviceSpec): the synchronous part of the constructor.
\* Without an address every apiCall resolves without a value at once, and the
\* capability handlers throw on it.
Construct(mac, address, hw, build) ==
    LET o == Len(objs) + 1
        d == NewDevice(mac, address, hw, build)
    IN IF NoAddress(address)
       THEN [objs |-> Append(objs, [d EXCEPT !.rejected = TRUE]), calls |-> calls]
       ELSE [objs |-> Append(objs, d),
             calls |-> calls
                 \cup (IF build = "webhook" THEN {}
                       ELSE {Call(o, "services_config", "POST")})
                 \cup {Call(o, path, "GET") : path \in CapabilityQueries(build)}]

\* DingzAdapter.handleDiscovery(deviceSpec): the objects and requests after
\* it; hw is the puck a new object will talk to, build the adapter build.
HandleDiscovery(mac, address, hw, build) ==
    LET deviceId == DeviceId(mac)
    IN IF HasDevice(deviceId)
       THEN [objs |-> [objs EXCEPT ![GetDevice(deviceId)] = UpdateFromDiscovery(@, address)],
             calls |-> calls]
       ELSE Construct(mac, address, hw, build)

\* No more than E.maxObjects objects are constructed, and where the reports
\* of new devices come one at a time, none while a request is unanswered.
MayDiscover(E, mac) ==
    \/ HasDevice(DeviceId(mac))
    \/ (Len(objs) < E.maxObjects /\ (E.oneAtATime => calls = {}))

\* The discovery browser reports a service.
Discovery(E) ==
    \E mac \in E.macs, address \in E.addresses, hw \in E.hardware, build \in E.builds :
        /\ MayDiscover(E, mac)
        /\ (HasDevice(DeviceId(mac)) => /\ hw = CHOOSE h \in E.hardware : TRUE
                                        /\ build = CHOOSE b \in E.builds : TRUE)
        /\ LET st == HandleDiscovery(mac, address, hw, build)
           IN /\ objs' = st.objs
              /\ calls' = st.calls
        /\ UNCHANGED <<devices, poller>>
        /\ last' = Ran("discovery",
                        IF HasDevice(DeviceId(mac)) THEN GetDevice(DeviceId(mac))
                        ELSE Len(objs) + 1,
                        [mac |-> mac, address |-> address],
                        IF HasDevice(DeviceId(mac)) THEN "updated" ELSE "constructed",
                        <<>>)

\* Adapter.handleDeviceAdded(device)
HandleDeviceAdded(devs, d, o) == [devs EXCEPT ![d.id] = o]

\* An end of the constructor chain that announces the device with the
\* configurations left unapplied.
FinishWithoutDetails(d) == [d EXCEPT !.phase = "announced"]

\* The end of the constructor chain once no detail fetch is pending: the
\* configurations are applied and the device is announced.
FinishConstruction(d) == [ApplyDetails(d) EXCEPT !.phase = "announced"]

\* The device part of an answer to a detail fetch.
DetailConfig(path, hw) ==
    IF path = "blind_config" THEN [blinds |-> hw.blinds] ELSE [dimmers |-> hw.dimmers]

\* The response to the mqtt configuration request arrives.
ConfigureMqttDone(E) ==
    \E c \in calls : \E outcome \in E.outcomes[c.path] :
        /\ c.path = "services_config"
        /\ MayArrive(E, c)
        /\ objs' = [objs EXCEPT ![c.obj] = AfterApiCall(@, c.method, outcome)]
        /\ calls' = calls \ {c}
        /\ UNCHANGED <<devices, poller>>
        /\ last' = RanApiCall(c, outcome)

\* The response to a capability query arrives. When it is the last one and
\* none has failed, the schema is registered and the detail fetches go out.
CapabilityDone(E) ==
    \E c \in calls : \E outcome \in E.outcomes[c.path] :
        /\ c.path \in CapabilityPaths
        /\ MayArrive(E, c)
        /\ \E d2 \in {IF ApiCallResult(c.method, outcome).ret = "json"
                       THEN [ApplyCapability(AfterApiCall(objs[c.obj], c.method, outcome),
                                             c.path, objs[c.obj].puck)
                                EXCEPT !.resolved = @ \cup {c.path}]
                       ELSE [AfterApiCall(objs[c.obj], c.method, outcome)
                                EXCEPT !.rejected = TRUE]} :
              IF ~(d2.resolved = CapabilityQueries(d2.build) /\ ~d2.rejected)
              THEN /\ objs' = [objs EXCEPT ![c.obj] = d2]
                   /\ calls' = calls \ {c}
                   /\ UNCHANGED <<devices, poller>>
              ELSE \E d3 \in {AddListener(RegisterSchema(d2), c.obj)} :
                     LET fetches == IF NoAddress(d3.address) THEN {}
                                    ELSE DetailPaths(d3) \cup EventListenerPaths(d3)
                         d4 == [d3 EXCEPT !.phase = "detail", !.detail = fetches]
                     IN IF fetches = {}
                        THEN /\ objs' = [objs EXCEPT ![c.obj] = FinishConstruction(d4)]
                             /\ calls' = calls \ {c}
                             /\ devices' = HandleDeviceAdded(devices, d4, c.obj)
                             /\ poller' = AfterDeviceAdded(poller, d4, c.obj)
                        ELSE /\ objs' = [objs EXCEPT ![c.obj] = d4]
                             /\ calls' = (calls \ {c})
                                   \cup {Call(c.obj, path, "GET") : path \in DetailPaths(d3)}
                                   \cup {[Call(c.obj, path, "POST") EXCEPT !.slot = 1] :
                                             path \in EventListenerPaths(d3)}
                             /\ UNCHANGED <<devices, poller>>
        /\ last' = RanApiCall(c, outcome)

\* The response to a detail fetch arrives. When it is the last one and none
\* has failed, the configurations are applied and the device is announced.
DetailDone(E) ==
    \E c \in calls : \E outcome \in E.outcomes[c.path] :
        /\ c.path \in DetailFetches
        /\ MayArrive(E, c)
        /\ \E d2 \in {[AfterApiCall(objs[c.obj], c.method, outcome) EXCEPT
                          !.detail = @ \ {c.path},
                          !.rejected = @ \/ ApiCallResult(c.method, outcome).ret = "raise",
                          !.config = IF ApiCallResult(c.method, outcome).ret = "json"
                                     THEN (c.path :> DetailConfig(c.path, objs[c.obj].puck)) @@ @
                                     ELSE @]} :
              IF d2.detail = {} /\ ~d2.rejected
              THEN /\ objs' = [objs EXCEPT ![c.obj] = FinishConstruction(d2)]
                   /\ devices' = HandleDeviceAdded(devices, d2, c.obj)
                   /\ poller' = AfterDeviceAdded(poller, d2, c.obj)
              ELSE /\ objs' = [objs EXCEPT ![c.obj] = d2]
                   /\ UNCHANGED <<devices, poller>>
        /\ calls' = calls \ {c}
        /\ last' = RanApiCall(c, outcome)

\* The response to one of registerEventListener's requests arrives: the next
\* request goes out, or after the last one the registration is done; a
\* request that raises ends it with a rejection.
EventListenerDone(E) ==
    \E c \in calls : \E outcome \in E.outcomes[c.path] :
        /\ c.path = "action"
        /\ MayArrive(E, c)
        /\ LET raised == ApiCallResult(c.method, outcome).ret = "raise"
               more == ~raised /\ c.slot < EventListenerCalls
           IN \E d2 \in {[AfterApiCall(objs[c.obj], c.method, outcome) EXCEPT
                             !.detail = IF more THEN @ ELSE @ \ {c.path},
                             !.rejected = @ \/ raised]} :
                 /\ calls' = (calls \ {c}) \cup
                        (IF more THEN {[c EXCEPT !.slot = c.slot + 1]} ELSE {})
                 /\ IF d2.detail = {} /\ ~d2.rejected
                    THEN /\ objs' = [objs EXCEPT ![c.obj] = FinishConstruction(d2)]
                         /\ devices' = HandleDeviceAdded(devices, d2, c.obj)
                         /\ poller' = AfterDeviceAdded(poller, d2, c.obj)
                    ELSE /\ objs' = [objs EXCEPT ![c.obj] = d2]
                         /\ UNCHANGED <<devices, poller>>
        /\ last' = RanApiCall(c, outcome)

\* The 'message' handler of the message-bus client, for a message on topic
\* dingz/<id>/<path> with payload raw.
Message(E) ==
    \E msg \in E.messages, hw \in E.hardware, build \in E.builds :
        LET parsed == ParseMessage(msg.path, msg.raw)
            message == parsed.message
            o == GetDevice(TopicDeviceId(msg.id))
            mac == ToUpperCase(msg.id)
        IN IF parsed.dropped
           THEN /\ UNCHANGED <<objs, devices, calls, poller>>
                /\ last' = Ran("message", o, msg, "dropped", <<>>)
           ELSE IF o = 0
           THEN IF Len(msg.path) >= 1 /\ msg.path[1] = "announce"
                THEN IF message.t = "null"
                     THEN /\ UNCHANGED <<objs, devices, calls, poller>>
                          /\ last' = Ran("message", o, msg, "threw", <<>>)
                     ELSE /\ MayDiscover(E, mac)
                          /\ LET st == HandleDiscovery(mac, FieldIp(message), hw, build)
                             IN /\ objs' = st.objs
                                /\ calls' = st.calls
                          /\ UNCHANGED <<devices, poller>>
                          /\ last' = Ran("message",
                                          IF HasDevice(DeviceId(mac))
                                          THEN GetDevice(DeviceId(mac)) ELSE Len(objs) + 1,
                                          msg, "discovery", <<>>)
                ELSE /\ UNCHANGED <<objs, devices, calls, poller>>
                     /\ last' = Ran("message", o, msg, "ignored", <<>>)
           ELSE \E r \in {MqttEvent(objs[o], msg.path, message)} :
                /\ E.countPushes => objs[o].pushes < MaxPushes
                /\ objs' = [objs EXCEPT ![o] =
                               [r.dev EXCEPT !.pushes = IF E.countPushes THEN @ + 1 ELSE @]]
                /\ calls' = {IF c.obj = o /\ c.path = "state"
                              THEN [c EXCEPT !.stale = @ \cup
                                       {n \in DOMAIN r.dev.props :
                                            r.dev.props[n] # objs[o].props[n]}]
                              ELSE c : c \in calls}
                /\ UNCHANGED <<devices, poller>>
                /\ last' = [Ran("message", o, msg,
                                 IF r.threw THEN "threw" ELSE "handled", r.events)
                               EXCEPT !.again = /\ E.countPushes
                                                /\ last.op = "message"
                                                /\ last.obj = o
                                                /\ last.ret \in {"handled", "threw"}
                                                /\ last.arg = msg]

\* this.listeners.get(id): the object the endpoint knows under id, 0 if none
Listener(id) ==
    IF \E o \in 1..Len(objs) : objs[o].listener = id
    THEN CHOOSE o \in 1..Len(objs) : objs[o].listener = id
    ELSE 0

\* A POST to the web endpoint arrives; where the pucks do one thing at a
\* time, none while a request to a puck is unanswered.
WebEvent(E) ==
    \E request \in E.requests, version \in E.endpoints :
        LET o == Listener(request.id)
        IN /\ E.oneAtATime => calls = {}
           /\ UNCHANGED <<devices, calls, poller>>
           /\ IF o = 0
              THEN /\ UNCHANGED objs
                   /\ last' = Ran("webEvent", o, [request |-> request, version |-> version],
                                   "401", <<>>)
              ELSE \E a \in {HandleEvent(version, objs[o], request.body, request.ip)} :
                   /\ objs' = [objs EXCEPT ![o] = a.dev]
                   /\ last' = Ran("webEvent", o, [request |-> request, version |-> version],
                                   a.response, a.events)

\* The polls of object o in flight.
PollsInFlight(o) == {c \in calls : c.obj = o /\ c.path = "state"}

\* A poll that goes on whatever the connection state.
PollNeverReturnsAtOnce(d) == FALSE

\* if(!this.connected) return; at the head of poll()
PollReturnsAtOnce(d) == ~Truthy(d.connected)

\* Dingz.poll() up to its first suspension: nothing for a disconnected
\* device, else the state request goes out (none without an address).
Poll(E) ==
    \E o \in 1..Len(objs), state \in E.snapshots :
        /\ objs[o].phase = "announced"
        /\ IF PollReturnsAtOnce(objs[o])
           THEN /\ UNCHANGED calls
                /\ last' = Ran("poll", o, <<>>, "disconnected", <<>>)
           ELSE IF NoAddress(objs[o].address)
           THEN /\ UNCHANGED calls
                /\ last' = Ran("poll", o, <<>>, "no state", <<>>)
           ELSE /\ Cardinality(PollsInFlight(o)) < MaxPolls
                /\ \E slot \in 1..MaxPolls :
                       /\ \A c \in PollsInFlight(o) : c.slot # slot
                       /\ \A s \in 1..(slot - 1) : \E c \in PollsInFlight(o) : c.slot = s
                       /\ calls' = calls \cup
                              {[Call(o, "state", "GET") EXCEPT !.slot = slot, !.snap = state]}
                /\ last' = Ran("poll", o, <<>>, "requested", <<>>)
        /\ UNCHANGED <<objs, devices, poller>>

\* What `last` records of the poll a response belongs to.
PollArg(c, outcome) ==
    [path |-> c.path, method |-> c.method, outcome |-> outcome,
     snap |-> c.snap, stale |-> c.stale]

\* The response to a poll's state request arrives and poll() runs to its end.
PollDone(E) ==
    \E c \in calls : \E outcome \in E.outcomes[c.path] :
        /\ c.path = "state"
        /\ MayArrive(E, c)
        /\ LET result == ApiCallResult(c.method, outcome)
               d1 == AfterApiCall(objs[c.obj], c.method, outcome)
           IN IF result.ret = "json"
              THEN \E r \in {ApplySnapshot(d1, c.snap)} :
                   /\ objs' = [objs EXCEPT ![c.obj] = r.dev]
                   /\ last' = Ran("pollDone", c.obj, PollArg(c, outcome),
                                   IF r.threw THEN "threw" ELSE "applied", <<>>)
              ELSE /\ objs' = [objs EXCEPT ![c.obj] = d1]
                   /\ last' = [Ran("pollDone", c.obj, PollArg(c, outcome),
                                    IF result.ret = "raise" THEN "raised"
                                    ELSE IF d1.build = "webhook" THEN "threw"
                                    ELSE "no state",
                                    <<>>)
                                  EXCEPT !.error = result.error]
        /\ calls' = calls \ {c}
        /\ UNCHANGED <<devices, poller>>

\* The gateway serializes a device it has been told of.
Serialize(E) ==
    \E o \in 1..Len(objs) :
        /\ objs[o].phase = "announced"
        /\ UNCHANGED <<objs, devices, calls, poller>>
        /\ last' = [Ran("asDict", o, <<>>, "dict", <<>>) EXCEPT !.dict = AsDict(objs[o])]

\* The steps of the adapter in environment E: the MAC spellings and addresses
\* discovery reports, how many objects all reports and announces together may
\* construct, the adapter builds that construct them, the answers of the
\* devices, what fetch produces for each path, the messages on the bus,
\* whether a device handles no more than MaxPushes of them, and the state
\* snapshots.
NextIn(E) ==
    \/ Discovery(E)
    \/ ConfigureMqttDone(E)
    \/ CapabilityDone(E)
    \/ DetailDone(E)
    \/ EventListenerDone(E)
    \/ Message(E)
    \/ Poll(E)
    \/ PollDone(E)
    \/ Serialize(E)
    \/ WebEvent(E)

----------------------------------------------------------------------------
(* Environments. *)

Address1 == <<"10.0.0.1">>
Address2 == <<"10.0.0.2">>
AddressWithPort == <<"10.0.0.3", ":", "8080">>
AddressV6 == <<"fe80", ":", ":", "1">>

Ok200 == [kind |-> "response", status |-> 200, body |-> "json"]
NoContent204 == [kind |-> "response", status |-> 204, body |-> "json"]
NotFound404 == [kind |-> "response", status |-> 404, body |-> "json"]
TimedOut == [kind |-> "error", type |-> "system", code |-> "ETIMEDOUT"]
Unreachable == [kind |-> "error", type |-> "system", code |-> "EHOSTUNREACH"]
Refused == [kind |-> "error", type |-> "system", code |-> "ECONNREFUSED"]

BlindConfig(type, name) ==
    [type |-> type, min_value |-> "10", max_value |-> "90", name |-> name]
DimmerConfig(active, type, name) ==
    [active |-> active, type |-> type, name |-> name,
     output |-> IF active THEN "halogen" ELSE "not_connected"]

\* A puck with one shutter and dimmers 1 and 2, a thermostat on output 1.
HwMixed ==
    [name |-> "Hall - Puck", dip |-> 1, has_pir |-> TRUE, active |-> TRUE,
     valve |-> 1, valveEnable |-> TRUE, out |-> 1,
     blinds |-> <<BlindConfig("blind", ""), BlindConfig("shade", "Window")>>,
     dimmers |-> <<DimmerConfig(TRUE, "light", "Ceiling"), DimmerConfig(TRUE, "light", ""),
                   DimmerConfig(FALSE, "light", ""), DimmerConfig(TRUE, "pulse", "")>>]

\* A puck with four dimmers, no motion sensor and no thermostat.
HwDimmers ==
    [name |-> "Room - Puck", dip |-> 3, has_pir |-> FALSE, active |-> FALSE,
     valve |-> NoOutput, valveEnable |-> FALSE, out |-> 0,
     blinds |-> <<BlindConfig("blind", ""), BlindConfig("blind", "")>>,
     dimmers |-> <<DimmerConfig(TRUE, "light", ""), DimmerConfig(FALSE, "light", "Off"),
                   DimmerConfig(TRUE, "light", "Spot"), DimmerConfig(TRUE, "pulse", "")>>]

\* A puck with two shutters.
HwShades ==
    [name |-> "Room - Puck", dip |-> 0, has_pir |-> TRUE, active |-> FALSE,
     valve |-> NoOutput, valveEnable |-> FALSE, out |-> 0,
     blinds |-> <<BlindConfig("blind", "Door"), BlindConfig("shade", "")>>,
     dimmers |-> <<DimmerConfig(TRUE, "light", ""), DimmerConfig(TRUE, "light", ""),
                   DimmerConfig(TRUE, "light", ""), DimmerConfig(TRUE, "light", "")>>]

Dimmer(absolute, on, value) == [absolute |-> absolute, on |-> on, value |-> value]
Blind(absolute, position, lamella) ==
    [absolute |-> absolute, position |-> position, lamella |-> lamella]

\* A full-state snapshot listing all four dimmers and both blinds.
Snapshot(level, on, mode) ==
    [brightness |-> level, hasRoomTemperature |-> TRUE, room_temperature |-> "21",
     led |-> [on |-> on, mode |-> mode, hsv |-> <<0, 100, 100>>, rgb |-> "00FF00"],
     dimmers |-> <<Dimmer(0, on, "40"), Dimmer(1, "false", "0"),
                   Dimmer(2, on, "70"), Dimmer(3, "true", "100")>>,
     power_outputs |-> <<"0", "12", level, "3">>,
     blinds |-> <<Blind(0, "50", "0"), Blind(1, level, "100")>>,
     thermostat |-> [active |-> TRUE, target_temp |-> "20", min_target_temp |-> "5",
                     max_target_temp |-> "30", enabled |-> (on = "true"),
                     mode |-> "heating", on |-> (on = "true"), out |-> 1]]

AnnounceMessage(id, address) ==
    [id |-> id, path |-> <<"announce">>,
     raw |-> Json(Obj(("ip" :> address) @@ ("model" :> "dz1f")))]
PushMessage(id, path, raw) == [id |-> id, path |-> path, raw |-> raw]

\* Discovery, announces and connectivity of pucks that answer their requests
\* in order and show up one after the other.
EnvDiscovery ==
    [macs |-> {"aa", "BB"},
     addresses |-> {Address1, AddressV6, EmptyString},
     maxObjects |-> MaxDevices,
     builds |-> {"mqtt"},
     countPushes |-> FALSE,
     inOrder |-> TRUE,
     oneAtATime |-> TRUE,
     hardware |-> {HwMixed},
     outcomes |-> [path \in Paths |->
                      IF path = "services_config" THEN {Ok200, TimedOut} ELSE {Ok200}],
     messages |-> {AnnounceMessage("aa", Address2), AnnounceMessage("AA", AddressWithPort),
                   PushMessage("bb", <<"announce">>, Text("p")),
                   PushMessage("aa", <<"online">>, Json(Prim("boolean", "false"))),
                   PushMessage("bb", <<"dz1f", "sensor", "light">>, Text("garbage")),
                   PushMessage("bb", <<"dz1f", "sensor", "light">>, Json(Prim("number", "7")))},
     snapshots |-> {}]

Next ==
    \/ Discovery(EnvDiscovery)
    \/ ConfigureMqttDone(EnvDiscovery)
    \/ CapabilityDone(EnvDiscovery)
    \/ DetailDone(EnvDiscovery)
    \/ Message(EnvDiscovery)

Spec == Init /\ [][Next]_vars

----------------------------------------------------------------------------
(* One puck whose requests are answered in any order, with everything fetch
   can produce. *)

EnvCalls ==
    [macs |-> {"aa"},
     addresses |-> {Address1},
     maxObjects |-> 1,
     builds |-> {"mqtt"},
     countPushes |-> FALSE,
     inOrder |-> FALSE,
     oneAtATime |-> FALSE,
     hardware |-> {HwMixed, HwDimmers},
     outcomes |-> [path \in Paths |-> Outcomes],
     messages |-> {},
     snapshots |-> {Snapshot("3", "true", "rgb")}]

NextCalls ==
    \/ Discovery(EnvCalls)
    \/ ConfigureMqttDone(EnvCalls)
    \/ CapabilityDone(EnvCalls)
    \/ DetailDone(EnvCalls)
    \/ Poll(EnvCalls)
    \/ PollDone(EnvCalls)

SpecCalls == Init /\ [][NextCalls]_vars

----------------------------------------------------------------------------
(* One puck that is polled while it pushes its changes. *)

\* A puck with one shutter and dimmers 1 and 2, whose heating valve is on
\* output 3.
HwValve3 ==
    [name |-> "Bath - Puck", dip |-> 1, has_pir |-> FALSE, active |-> TRUE,
     valve |-> 2, valveEnable |-> TRUE, out |-> 2,
     blinds |-> <<BlindConfig("blind", ""), BlindConfig("blind", "")>>,
     dimmers |-> <<DimmerConfig(TRUE, "light", ""), DimmerConfig(TRUE, "light", ""),
                   DimmerConfig(TRUE, "light", ""), DimmerConfig(TRUE, "light", "")>>]

EnvSync ==
    [macs |-> {"aa"},
     addresses |-> {Address1},
     maxObjects |-> 1,
     builds |-> {"mqtt"},
     countPushes |-> FALSE,
     inOrder |-> TRUE,
     oneAtATime |-> TRUE,
     hardware |-> {HwMixed, HwDimmers, HwValve3},
     outcomes |-> [path \in Paths |->
                      IF path = "state" THEN {Ok200, NoContent204, TimedOut} ELSE {Ok200}],
     messages |-> {PushMessage("aa", <<"dz1f", "sensor", "light">>, Json(Prim("number", "7"))),
                   PushMessage("aa", <<"dz1f", "state", "light", "0">>,
                               Json(Obj(("turn" :> "on") @@ ("brightness" :> "55")))),
                   PushMessage("aa", <<"dz1f", "state", "light", "2">>,
                               Json(Obj(("turn" :> "off") @@ ("brightness" :> "0")))),
                   PushMessage("aa", <<"online">>, Json(Prim("boolean", "false")))},
     snapshots |-> {Snapshot("3", "true", "rgb"), Snapshot("9", "false", "hsv")}]

NextSync ==
    \/ Discovery(EnvSync)
    \/ ConfigureMqttDone(EnvSync)
    \/ CapabilityDone(EnvSync)
    \/ DetailDone(EnvSync)
    \/ Message(EnvSync)
    \/ Poll(EnvSync)
    \/ PollDone(EnvSync)

SpecSync == Init /\ [][NextSync]_vars

----------------------------------------------------------------------------
(* Connectivity and the HTTP call wrapper. *)

\* C1: poll() of a device that is marked disconnected returns without a
\* transport call and without changing any property; a device that is marked
\* connected (discovery marks it so again) and has an address gets its state
\* requested.
PollOfDisconnectedDoesNothing ==
    [][last'.op = "poll" =>
          IF ~Truthy(objs[last'.obj].connected)
          THEN calls' = calls /\ objs' = objs /\ devices' = devices
          ELSE \/ objs[last'.obj].address \in {Undefined, EmptyString}
               \/ \E c \in calls' \ calls : c.obj = last'.obj /\ c.path = "state"]_vars

\* A poll has found the device disconnected after it had been announced.
PollOfDisconnectedSeen ==
    /\ last.op = "poll"
    /\ last.ret = "disconnected"
    /\ ~Truthy(objs[last.obj].connected)
    /\ devices[objs[last.obj].id] = last.obj

\* The handlers that end with a call's result.
CallSettled == last.op \in {"apiCall", "pollDone"}
CallRaised == last.ret \in {"raise", "raised"}

\* C2: an apiCall whose fetch fails with a system error of code ETIMEDOUT or
\* EHOSTUNREACH marks the device disconnected and resolves without raising.
TimeoutMarksDisconnected ==
    (/\ CallSettled
     /\ last.arg.outcome.kind = "error"
     /\ last.arg.outcome.type = "system"
     /\ last.arg.outcome.code \in {"ETIMEDOUT", "EHOSTUNREACH"})
        => /\ ~CallRaised
           /\ last.error.kind = "none"
           /\ objs[last.obj].connected = "false"

\* A capability query has ended on an unreachable host.
UnreachableSeen ==
    /\ last.op = "apiCall"
    /\ last.arg.outcome = Unreachable
    /\ last.ret = "undefined"
    /\ objs[last.obj].connected = "false"

\* C3: every other failure of an apiCall is raised to the caller: any other
\* error of fetch as it is, and every response with a status outside 200..299
\* as an error that carries the status and the body text.
OtherFailuresAreRaised ==
    CallSettled =>
        /\ (/\ last.arg.outcome.kind = "error"
            /\ ~(/\ last.arg.outcome.type = "system"
                 /\ last.arg.outcome.code \in {"ETIMEDOUT", "EHOSTUNREACH"}))
              => /\ CallRaised
                 /\ last.error.kind = "fetch"
                 /\ last.error.text = last.arg.outcome.code
        /\ (/\ last.arg.outcome.kind = "response"
            /\ (last.arg.outcome.status < 200 \/ last.arg.outcome.status > 299))
              => /\ CallRaised
                 /\ last.error.kind = "status"
                 /\ last.error.status = last.arg.outcome.status
                 /\ last.error.text = last.arg.outcome.body

\* A call has been rejected for a 304 response.
NotModifiedRaisedSeen ==
    /\ CallSettled
    /\ last.arg.outcome.kind = "response"
    /\ last.arg.outcome.status = 304
    /\ CallRaised
    /\ last.error.status = 304

\* An announce message, by the topic it arrived on.
IsAnnounce(msg) == Len(msg.path) >= 1 /\ msg.path[1] = "announce"

\* C4: after a discovery event or an announce message for a MAC (one that
\* constructs the device, one for a device already known, or an announce
\* handled by the known device itself) that device is marked connected.
ConnectedAfterDiscoveryOrAnnounce ==
    (\/ last.op = "discovery"
     \/ /\ last.op = "message"
        /\ IsAnnounce(last.arg)
        /\ last.ret \in {"discovery", "handled"})
        => Truthy(objs[last.obj].connected)

----------------------------------------------------------------------------
(* Discovery and announces. *)

\* The id of the device a discovery event or an announce topic names.
IdOfMac(mac) ==
    "dingz-" \o (CASE mac = "AA" -> "aa" [] mac = "BB" -> "bb" [] OTHER -> mac)

\* Step by step: every object but o is left as it is.
OthersUnchanged(o) ==
    /\ Len(objs') = Len(objs)
    /\ \A i \in 1..Len(objs) : i # o => objs'[i] = objs[i]

\* Step by step: a new object for `mac` at `address` is appended, and with an
\* address its capability queries are sent.
Constructed(mac, address) ==
    /\ Len(objs') = Len(objs) + 1
    /\ \A i \in 1..Len(objs) : objs'[i] = objs[i]
    /\ objs'[Len(objs')].id = IdOfMac(mac)
    /\ objs'[Len(objs')].address = address
    /\ objs'[Len(objs')].phase = "resolving"
    /\ objs'[Len(objs')].connected = "true"
    /\ objs'[Len(objs')].props = <<>>
    /\ address \notin {Undefined, EmptyString} =>
           \A path \in {"system_config", "device", "thermostat", "outputs"} :
               \E c \in calls' \ calls : c.obj = Len(objs') /\ c.path = path

\* C5: handleDiscovery for a device id that is not registered constructs a
\* new device object, whose capability resolution starts; for a registered id
\* it constructs nothing, sends nothing and updates the registered object
\* (its connection state and address, nothing else).
DiscoveryConstructsOnlyUnregistered ==
    [][last'.op = "discovery" =>
          IF devices[IdOfMac(last'.arg.mac)] # 0
          THEN LET o == devices[IdOfMac(last'.arg.mac)]
               IN /\ OthersUnchanged(o)
                  /\ calls' = calls
                  /\ devices' = devices
                  /\ objs'[o] = [objs[o] EXCEPT !.connected = objs'[o].connected,
                                                !.address = objs'[o].address]
                  /\ objs'[o].connected = "true"
          ELSE Constructed(last'.arg.mac, last'.arg.address)]_vars

\* A discovery event has found its device registered; no second object has
\* been constructed.
DiscoveryOfRegisteredSeen ==
    /\ last.op = "discovery"
    /\ last.ret = "updated"
    /\ devices[objs[last.obj].id] = last.obj
    /\ Len(objs) = 1

\* C6: a discovery event for a known device sets the device's address to the
\* reported one, unless the reported address is empty or contains ':', in
\* which case the address stays as it is; in both cases the device is marked
\* connected.
KnownDiscoveryUpdatesAddress ==
    [][(last'.op = "discovery" /\ devices[IdOfMac(last'.arg.mac)] # 0) =>
          LET o == devices[IdOfMac(last'.arg.mac)]
              a == last'.arg.address
          IN /\ objs'[o].connected = "true"
             /\ objs'[o].address =
                    IF a \notin {Undefined, EmptyString} /\ \A i \in 1..Len(a) : a[i] # ":"
                    THEN a
                    ELSE objs[o].address]_vars

\* A known device has been discovered at an address with a ':' and has kept
\* its address.
ColonAddressIgnoredSeen ==
    /\ last.op = "discovery"
    /\ last.ret = "updated"
    /\ \E i \in 1..Len(last.arg.address) : last.arg.address[i] = ":"
    /\ objs[last.obj].address # last.arg.address
    /\ objs[last.obj].connected = "true"

\* payload.ip of a decoded payload
PayloadIp(m) == IF m.t = "object" /\ "ip" \in DOMAIN m.f THEN m.f["ip"] ELSE Undefined

\* C7: a decoded push message whose topic device id is not registered is, on
\* the announce topic, handled as handleDiscovery of the upper-cased id and
\* the payload's ip (a new object is constructed unless that MAC's device is
\* registered, which is then updated); on any other topic it changes nothing.
UnknownAnnounceIsDiscovery ==
    [][(/\ last'.op = "message"
        /\ ("dingz-" \o last'.arg.id \notin DOMAIN devices
               \/ devices["dingz-" \o last'.arg.id] = 0)
        /\ ~ParseMessage(last'.arg.path, last'.arg.raw).dropped
        /\ ParseMessage(last'.arg.path, last'.arg.raw).message.t # "null") =>
          IF last'.arg.path[1] = "announce"
          THEN IF devices[IdOfMac(last'.arg.id)] # 0
               THEN /\ OthersUnchanged(devices[IdOfMac(last'.arg.id)])
                    /\ objs'[devices[IdOfMac(last'.arg.id)]].connected = "true"
                    /\ calls' = calls
               ELSE Constructed(last'.arg.id,
                                PayloadIp(ParseMessage(last'.arg.path, last'.arg.raw).message))
          ELSE objs' = objs /\ calls' = calls /\ devices' = devices]_vars

\* An announce for an unregistered id has constructed an object at the
\* payload's ip.
AnnounceConstructedSeen ==
    /\ last.op = "message"
    /\ last.ret = "discovery"
    /\ last.obj = Len(objs)
    /\ objs[last.obj].address = Address2
    /\ objs[last.obj].phase = "resolving"
    /\ \E c \in calls : c.obj = last.obj /\ c.path = "device"

----------------------------------------------------------------------------
(* Construction. *)

\* The objects handleDeviceAdded has been called with.
Announced == {devices[id] : id \in DOMAIN devices} \ {0}

\* The configurations object o has received are in its schema.
DetailsApplied(o) ==
    LET d == objs[o]
    IN /\ ("blind_config" \in DOMAIN d.config /\ d.shade2) =>
              /\ d.props["shade2"].minimum = d.config["blind_config"].blinds[2].min_value
              /\ d.props["shade2"].maximum = d.config["blind_config"].blinds[2].max_value
              /\ d.props["shade2Lamella"].visible =
                     (d.config["blind_config"].blinds[2].type = "blind")
       /\ ("dimmer_config" \in DOMAIN d.config /\ d.dimmerGroup1 /\ d.thermostatOutput # 0) =>
              LET config == d.config["dimmer_config"].dimmers[1]
              IN /\ d.props["dimmer1"].visible = (config.active /\ config.type = "light")
                 /\ config.name # "" => d.props["dimmer1"].title = config.name

\* Step by step: the titles, visibility, bounds, actions and events of object
\* o stay as they are, but for the target temperature bounds a poll refreshes
\* from its snapshot.
SchemaUnchanged(o) ==
    /\ DOMAIN objs'[o].props = DOMAIN objs[o].props
    /\ \A n \in DOMAIN objs[o].props :
           /\ objs'[o].props[n].title = objs[o].props[n].title
           /\ objs'[o].props[n].visible = objs[o].props[n].visible
           /\ objs'[o].props[n].type = objs[o].props[n].type
           /\ (n = "targetTemperature" /\ last'.op = "pollDone")
                  \/ /\ objs'[o].props[n].minimum = objs[o].props[n].minimum
                     /\ objs'[o].props[n].maximum = objs[o].props[n].maximum
    /\ objs'[o].actions = objs[o].actions
    /\ objs'[o].events = objs[o].events
    /\ objs'[o].title = objs[o].title

\* C8: handleDeviceAdded is called for a device only after all its schema
\* queries have been answered and handled, the schema is registered and every
\* detail fetch it sent has been answered and applied; from then on no step
\* refines a bound, a title or a visibility from configuration.
AnnouncedOnlyWhenComplete ==
    /\ [](\A o \in Announced :
              /\ objs[o].resolved = {"system_config", "device", "thermostat", "outputs"}
              /\ objs[o].detail = {}
              /\ ~\E c \in calls : c.obj = o /\ c.path \notin {"services_config", "state"}
              /\ {"led", "ledColor", "lightLevel", "temperature", "key1", "key4"}
                     \subseteq DOMAIN objs[o].props
              /\ DetailsApplied(o))
    /\ [][\A o \in Announced : SchemaUnchanged(o)]_vars

\* A device has been announced with its shutter configuration applied.
AnnouncedWithDetailsSeen ==
    \E o \in Announced :
        /\ "blind_config" \in DOMAIN objs[o].config
        /\ objs[o].shade2
        /\ objs[o].props["shade2"].minimum = "10"
        /\ objs[o].props["shade2"].title = "Window"

----------------------------------------------------------------------------
(* Pushes and polls. *)

NotWritten(o, n) ==
    n \in DOMAIN objs[o].props => objs'[o].props[n] = objs[o].props[n]

\* C10: a poll of a device without the dimmerGroup2 capability writes no
\* property of dimmer 3 or dimmer 4 (on/off, brightness or power), also when
\* the snapshot lists dimmers of absolute index 2 and 3.
PollWritesNoHighDimmer ==
    [][(last'.op = "pollDone" /\ ~objs[last'.obj].dimmerGroup2) =>
          /\ last'.ret # "threw"
          /\ \A n \in {"dimmer3", "dimmer3Brightness", "dimmer3Power",
                       "dimmer4", "dimmer4Brightness", "dimmer4Power"} :
                 NotWritten(last'.obj, n)]_vars

\* C10, as the code has it: such a poll writes no on/off and no brightness of
\* dimmer 3 or 4, and looks up neither; it writes the power property of
\* dimmer 3 or 4 only as the thermostat's valve power, when the thermostat is
\* active and its valve is on that output.
PollWritesOnlyValvePower ==
    [][(last'.op = "pollDone" /\ ~objs[last'.obj].dimmerGroup2) =>
          /\ last'.ret # "threw"
          /\ \A n \in {"dimmer3", "dimmer3Brightness", "dimmer4", "dimmer4Brightness"} :
                 NotWritten(last'.obj, n)
          /\ \A k \in {3, 4} :
                 \/ NotWritten(last'.obj, "dimmer" \o NumStr(k) \o "Power")
                 \/ /\ objs[last'.obj].thermostat
                    /\ objs[last'.obj].thermostatOutput = k - 1
                    /\ last'.arg.snap.thermostat.active]_vars

\* A poll of a device without dimmerGroup2, whose snapshot lists the dimmer
\* of absolute index 2, has written the valve power under dimmer 3's name.
ValvePowerWrittenSeen ==
    /\ last.op = "pollDone"
    /\ last.ret = "applied"
    /\ ~objs[last.obj].dimmerGroup2
    /\ \E i \in 1..Len(last.arg.snap.dimmers) : last.arg.snap.dimmers[i].absolute = 2
    /\ "dimmer3" \notin DOMAIN objs[last.obj].props
    /\ "dimmer3Power" \in DOMAIN objs[last.obj].props
    /\ objs[last.obj].props["dimmer3Power"].value = last.arg.snap.power_outputs[3]

----------------------------------------------------------------------------
(* The schema the constructor registers, as the gateway sees it, for pucks of
   every configuration and both adapter builds. *)

\* A puck with shutter 1 and dimmers 3 and 4, whose thermostat drives output
\* 3 and whose first shutter has tilting slats.
HwLamella ==
    [name |-> "Attic - Puck", dip |-> 2, has_pir |-> FALSE, active |-> TRUE,
     valve |-> 2, valveEnable |-> TRUE, out |-> 2,
     blinds |-> <<BlindConfig("lamella_90", "Roof"), BlindConfig("blind", "")>>,
     dimmers |-> <<DimmerConfig(TRUE, "light", ""), DimmerConfig(TRUE, "light", ""),
                   DimmerConfig(TRUE, "light", "Valve"), DimmerConfig(FALSE, "light", "")>>]

EnvSchema ==
    [macs |-> {"aa"},
     addresses |-> {Address1},
     maxObjects |-> 1,
     builds |-> {"mqtt", "webhook"},
     countPushes |-> FALSE,
     inOrder |-> TRUE,
     oneAtATime |-> TRUE,
     hardware |-> {HwMixed, HwDimmers, HwShades, HwValve3, HwLamella},
     outcomes |-> [path \in Paths |->
                      IF path \in DetailFetches THEN {Ok200, NoContent204}
                      ELSE IF path = "action" THEN {Ok200, TimedOut}
                      ELSE {Ok200}],
     messages |-> {},
     snapshots |-> {}]

NextSchema ==
    \/ Discovery(EnvSchema)
    \/ ConfigureMqttDone(EnvSchema)
    \/ CapabilityDone(EnvSchema)
    \/ DetailDone(EnvSchema)
    \/ EventListenerDone(EnvSchema)
    \/ Serialize(EnvSchema)

SpecSchema == Init /\ [][NextSchema]_vars

\* The schema handler of object o has run.
SchemaRegistered(o) == objs[o].phase \in {"detail", "announced"}

\* Object o has a thermostat on an output that one of its dimmer groups also
\* registers as a dimmer: the name of that dimmer.
SharedDimmer(o) == ThermostatDimmerId(objs[o].thermostatOutput)
SharesDimmer(o) ==
    /\ SchemaRegistered(o)
    /\ objs[o].thermostat
    /\ objs[o].thermostatOutput # NoOutput
    /\ SharedDimmer(o) \in DOMAIN objs[o].props

\* C11: when the thermostat is present with output index k, the on/off and
\* brightness properties of dimmer k+1 are invisible from the registration of
\* the schema on, also after the dimmer configuration has been applied; the
\* power property the dimmer group registered keeps its visibility and has
\* the valve's title.
ThermostatDimmerHidden ==
    \A o \in 1..Len(objs) :
        SharesDimmer(o) =>
            /\ objs[o].props[SharedDimmer(o)].visible = FALSE
            /\ objs[o].props[SharedDimmer(o) \o "Brightness"].visible = FALSE
            /\ objs[o].props[SharedDimmer(o) \o "Power"].visible = TRUE
            /\ objs[o].props[SharedDimmer(o) \o "Power"].title = "Thermostat Valve Power"

\* C11 for the objects of the message-bus build.
ThermostatDimmerHiddenOnBus ==
    \A o \in 1..Len(objs) :
        (SharesDimmer(o) /\ objs[o].build = "mqtt") =>
            /\ objs[o].props[SharedDimmer(o)].visible = FALSE
            /\ objs[o].props[SharedDimmer(o) \o "Brightness"].visible = FALSE
            /\ objs[o].props[SharedDimmer(o) \o "Power"].visible = TRUE
            /\ objs[o].props[SharedDimmer(o) \o "Power"].title = "Thermostat Valve Power"

\* A device of the message-bus build whose thermostat shares a dimmer's
\* output has been announced with its dimmer configuration applied.
SharedDimmerConfiguredSeen ==
    \E o \in 1..Len(objs) :
        /\ SharesDimmer(o)
        /\ objs[o].build = "mqtt"
        /\ objs[o].phase = "announced"
        /\ "dimmer_config" \in DOMAIN objs[o].config

\* C12: the serialized device has a property key exactly for the properties
\* whose visible is not false, and an action key exactly for the actions
\* whose visible is not false; a shade whose lamella property the
\* configuration made invisible is serialized without its shadeNLamella key
\* and with its position and power keys.
AsDictOmitsInvisible ==
    last.op = "asDict" =>
        LET d == objs[last.obj]
            dict == last.dict
        IN /\ \A n \in DOMAIN d.props \cup DOMAIN dict.properties :
                  n \in DOMAIN dict.properties <=>
                      (n \in DOMAIN d.props /\ d.props[n].visible # FALSE)
           /\ \A a \in DOMAIN d.actions \cup DOMAIN dict.actions :
                  a \in DOMAIN dict.actions <=>
                      (a \in DOMAIN d.actions /\ d.actions[a].visible # "false")
           /\ \A i \in {1, 2} :
                  (/\ ShadeId(i) \o "Lamella" \in DOMAIN d.props
                   /\ ~d.props[ShadeId(i) \o "Lamella"].visible)
                  => /\ ShadeId(i) \o "Lamella" \notin DOMAIN dict.properties
                     /\ ShadeId(i) \in DOMAIN dict.properties
                     /\ ShadeId(i) \o "Power" \in DOMAIN dict.properties

\* A device whose second shade has no slats by its configuration has been
\* serialized: its lamella key is left out, its position key is there.
LamellaOmittedSeen ==
    /\ last.op = "asDict"
    /\ "blind_config" \in DOMAIN objs[last.obj].config
    /\ "shade2Lamella" \in DOMAIN objs[last.obj].props
    /\ ~objs[last.obj].props["shade2Lamella"].visible
    /\ "shade2Lamella" \notin DOMAIN last.dict.properties
    /\ "shade2" \in DOMAIN last.dict.properties

\* The dimmers object o has in its schema.
DimmersOf(o) == {i \in 1..4 : DimmerId(i) \in DOMAIN objs[o].props}

\* C13: for every dimmer N in the schema, the serialized device has the
\* dimmerNtoggle action exactly when the dimmerN on/off property is visible,
\* from the registration of the schema on and also after the dimmer
\* configuration has been applied.
ToggleFollowsDimmer ==
    \A o \in 1..Len(objs) : \A i \in DimmersOf(o) :
        DimmerId(i) \o "toggle" \in DOMAIN AsDict(objs[o]).actions
            <=> objs[o].props[DimmerId(i)].visible

\* C13 for the objects of the message-bus build.
ToggleFollowsDimmerOnBus ==
    \A o \in 1..Len(objs) : \A i \in DimmersOf(o) :
        objs[o].build = "mqtt" =>
            (DimmerId(i) \o "toggle" \in DOMAIN AsDict(objs[o]).actions
                <=> objs[o].props[DimmerId(i)].visible)

----------------------------------------------------------------------------
(* One puck of the message-bus build and the messages it can publish, of
   every category of the dispatch table, well-formed or not. *)

ButtonMessage(index, raw) == PushMessage("aa", <<"dz1f", "event", "button", index>>, raw)

EnvPush ==
    [macs |-> {"aa"},
     addresses |-> {Address1},
     maxObjects |-> 1,
     builds |-> {"mqtt"},
     countPushes |-> TRUE,
     inOrder |-> TRUE,
     oneAtATime |-> TRUE,
     hardware |-> {HwMixed, HwDimmers},
     outcomes |-> [path \in Paths |-> {Ok200}],
     messages |->
         {ButtonMessage("0", Text(t)) : t \in {"p", "m1", "m2", "m3", "m4", "m5", "h", "r"}}
         \cup {ButtonMessage("3", Text(t)) : t \in {"p", "m4"}}
         \cup {ButtonMessage("1", Json(Prim("string", "m2"))),
               ButtonMessage("4", Text("p")),
               ButtonMessage("5", Text("p")),
               ButtonMessage("0", Json(Prim("number", "7"))),
               PushMessage("aa", <<"dz1f", "event", "pir", "0">>, Json(Prim("boolean", "true"))),
               PushMessage("aa", <<"dz1f", "event", "pir", "1">>, Json(Prim("boolean", "true"))),
               PushMessage("aa", <<"dz1f", "sensor", "temperature">>, Json(Prim("number", "21"))),
               PushMessage("aa", <<"dz1f", "sensor", "light">>, Json(Prim("number", "7"))),
               PushMessage("aa", <<"dz1f", "sensor", "light">>, Text("garbage")),
               PushMessage("aa", <<"dz1f", "sensor", "humidity">>, Json(Prim("number", "40"))),
               PushMessage("aa", <<"dz1f", "power", "motor", "1">>, Json(Prim("number", "12"))),
               PushMessage("aa", <<"dz1f", "power", "light", "0">>, Json(Prim("number", "5"))),
               PushMessage("aa", <<"dz1f", "power", "light", "3">>, Json(Prim("number", "5"))),
               PushMessage("aa", <<"dz1f", "state", "light", "0">>,
                           Json(Obj(("turn" :> "on") @@ ("brightness" :> "55")))),
               PushMessage("aa", <<"dz1f", "state", "light", "2">>,
                           Json(Obj(("turn" :> "off") @@ ("brightness" :> "0")))),
               PushMessage("aa", <<"dz1f", "state", "light", "0">>, Json(Null)),
               PushMessage("aa", <<"dz1f", "state", "thermostat">>,
                           Json(Obj(("status" :> "on") @@ ("mode" :> "heating")
                                    @@ ("target" :> "20")))),
               PushMessage("aa", <<"dz1f", "state", "thermostat">>,
                           BrokenThermostatJson(Obj(("status" :> "off") @@ ("mode" :> "cooling")
                                                    @@ ("target" :> "18")))),
               PushMessage("aa", <<"dz1f", "state", "motor", "1">>,
                           Json(Obj(("position" :> "30") @@ ("lamella" :> "0")))),
               PushMessage("aa", <<"dz1f", "state", "motor", "0">>,
                           Json(Obj(("position" :> "30") @@ ("lamella" :> "0")))),
               PushMessage("aa", <<"dz1f", "state", "led">>,
                           Json(Obj(("on" :> "1") @@ ("r" :> "255") @@ ("g" :> "16")
                                    @@ ("b" :> "0")))),
               PushMessage("aa", <<"dz1f", "state", "led">>, Json(Obj(("on" :> "0")))),
               PushMessage("aa", <<"dz1f", "command", "led">>, Json(Obj(("on" :> "1")))),
               PushMessage("aa", <<"dz1f", "diagnostics", "uptime">>, Json(Prim("number", "7"))),
               PushMessage("aa", <<"online">>, Json(Prim("boolean", "false"))),
               PushMessage("aa", <<"online">>, Json(Prim("boolean", "true"))),
               PushMessage("aa", <<"online">>, Json(Prim("number", "1"))),
               PushMessage("aa", <<"last_alive">>, Json(Prim("number", "7"))),
               AnnounceMessage("aa", Address2)},
     snapshots |-> {}]

NextPush ==
    \/ Discovery(EnvPush)
    \/ ConfigureMqttDone(EnvPush)
    \/ CapabilityDone(EnvPush)
    \/ DetailDone(EnvPush)
    \/ Message(EnvPush)

SpecPush == Init /\ [][NextPush]_vars

\* The token a push message carries: the raw text, or the string it parses to.
PayloadToken(msg) ==
    IF msg.raw.kind = "text" THEN msg.raw.text
    ELSE IF msg.raw.parse.t = "string" THEN msg.raw.parse.v
    ELSE ""

\* The message handler has passed a message to the device's mqttEvent.
Dispatched == last.op = "message" /\ last.ret \in {"handled", "threw"}

\* The message is a push of one of the keys 1..4 with one of the tokens.
IsButtonPush(msg, tokens) ==
    /\ Len(msg.path) = 4
    /\ msg.path[2] = "event"
    /\ msg.path[3] = "button"
    /\ msg.path[4] \in {"0", "1", "2", "3"}
    /\ PayloadToken(msg) \in tokens

\* The event that stands for a number of presses.
PressEvent(token) ==
    CASE token = "m1" -> "single" [] token = "m2" -> "double"
      [] token = "m3" -> "tripple" [] token = "m4" -> "quadruple"

\* The key a button push is about.
PushedKey(msg) == "key" \o IndexPlusOne(msg.path[4])

\* C14: a button push of key 1..4 with payload m1, m2, m3 or m4 fires exactly
\* one event, the single, double, triple or quadruple press event of that
\* key, and leaves the key's pressed property false.
MultiPressFiresItsEvent ==
    (Dispatched /\ IsButtonPush(last.arg, {"m1", "m2", "m3", "m4"})) =>
        /\ last.events = <<PushedKey(last.arg) \o PressEvent(PayloadToken(last.arg))>>
        /\ objs[last.obj].props[PushedKey(last.arg)].value = "false"

\* C14 for the payloads m1, m2 and m3.
UpToTriplePressFiresItsEvent ==
    (Dispatched /\ IsButtonPush(last.arg, {"m1", "m2", "m3"})) =>
        /\ last.events = <<PushedKey(last.arg) \o PressEvent(PayloadToken(last.arg))>>
        /\ objs[last.obj].props[PushedKey(last.arg)].value = "false"

\* Object o is the device registered under its id.
Registered(o) == devices[objs[o].id] = o

\* C15: in every state a registered device can be in, and for every message
\* of every category the handler passes on, handling the message twice in a
\* row leaves the same property values (and the same connection state and
\* address) as handling it once.
PushIsIdempotent ==
    \A o \in 1..Len(objs) : \A msg \in EnvPush.messages :
        (Registered(o) /\ ~ParseMessage(msg.path, msg.raw).dropped) =>
            LET message == ParseMessage(msg.path, msg.raw).message
                once == MqttEvent(objs[o], msg.path, message).dev
                twice == MqttEvent(once, msg.path, message).dev
            IN /\ twice.props = once.props
               /\ twice.connected = once.connected
               /\ twice.address = once.address

\* A device has handled the same message twice in a row, and the message has
\* written a property.
RepeatedPushSeen ==
    /\ last.op = "message"
    /\ last.ret = "handled"
    /\ last.again
    /\ \E n \in DOMAIN objs[last.obj].props :
           /\ objs[last.obj].props[n].value # "null"
           /\ MqttEvent([objs[last.obj] EXCEPT !.props[n].value = "null"],
                        last.arg.path,
                        ParseMessage(last.arg.path, last.arg.raw).message).dev.props[n].value
                  = objs[last.obj].props[n].value

\* The sub-targets the dispatch table of mqttEvent has for a category.
SubTargets(category) ==
    CASE category = "sensor" -> {"temperature", "light"}
      [] category = "power" -> {"motor", "light"}
      [] category = "energy" -> {"motor", "light"}
      [] category = "state" -> {"light", "thermostat", "motor", "led", "input"}
      [] category = "event" -> {"button", "pir"}
      [] OTHER -> {}

\* The topic of the message names no category and sub-target of the table.
Unrecognized(msg) ==
    /\ Len(msg.path) >= 1
    /\ msg.path[1] \notin {"online", "announce", "last_alive"}
    /\ Segment(msg.path, 3) \notin SubTargets(Segment(msg.path, 2))

\* The property values of a device.
Values(d) == [n \in DOMAIN d.props |-> d.props[n].value]

\* C16: handling a push message never raises; a payload that is neither
\* valid JSON nor a legacy token is dropped with no change of the devices,
\* and a message of an unrecognized category or sub-target changes no
\* property value and fires no event.
PushNeverRaises ==
    [][last'.op = "message" =>
          /\ last'.ret # "threw"
          /\ last'.ret = "dropped" => (objs' = objs /\ devices' = devices /\ calls' = calls)
          /\ (last'.ret = "handled" /\ Unrecognized(last'.arg)) =>
                 /\ Values(objs'[last'.obj]) = Values(objs[last'.obj])
                 /\ last'.events = <<>>]_vars

\* C16 without the promise that the handler never raises.
PushDropsWhatItCannotRead ==
    [][last'.op = "message" =>
          /\ last'.ret = "dropped" => (objs' = objs /\ devices' = devices /\ calls' = calls)
          /\ (last'.ret = "handled" /\ Unrecognized(last'.arg)) =>
                 /\ Values(objs'[last'.obj]) = Values(objs[last'.obj])
                 /\ last'.events = <<>>]_vars

\* The properties the dispatch table of mqttEvent writes for a topic.
Targets(path) ==
    LET category == Segment(path, 2)
        target == Segment(path, 3)
        index == IndexPlusOne(Segment(path, 4))
    IN CASE category = "sensor" /\ target = "temperature" -> {"temperature"}
         [] category = "sensor" /\ target = "light" -> {"lightLevel"}
         [] category = "power" /\ target = "motor" -> {"shade" \o index \o "Power"}
         [] category = "power" /\ target = "light" -> {"dimmer" \o index \o "Power"}
         [] category = "state" /\ target = "light" ->
                {"dimmer" \o index, "dimmer" \o index \o "Brightness"}
         [] category = "state" /\ target = "thermostat" ->
                {"thermostatMode", "thermostatState", "targetTemperature"}
         [] category = "state" /\ target = "motor" ->
                {"shade" \o index, "shade" \o index \o "Lamella"}
         [] category = "state" /\ target = "led" -> {"led", "ledColor"}
         [] category = "event" /\ target = "button" -> {"key" \o index}
         [] category = "event" /\ target = "pir" /\ Segment(path, 4) = "0" -> {"motion"}
         [] OTHER -> {}

\* The message is an update of properties of which device d has none.
SchemaMiss(d, msg) ==
    /\ Len(msg.path) >= 1
    /\ msg.path[1] \notin {"online", "announce", "last_alive"}
    /\ Targets(msg.path) # {}
    /\ Targets(msg.path) \cap DOMAIN d.props = {}

\* C17: a push update whose target property is not in the device's schema
\* (the capability is absent, or the index is outside the schema, button
\* indices included) is dropped: the handler raises nothing and no property
\* value changes.
SchemaMissIsDropped ==
    [][(/\ last'.op = "message"
        /\ last'.ret \in {"handled", "threw"}
        /\ SchemaMiss(objs[last'.obj], last'.arg)) =>
          /\ last'.ret = "handled"
          /\ Values(objs'[last'.obj]) = Values(objs[last'.obj])]_vars

\* C17 for the updates that are not button pushes.
OtherSchemaMissIsDropped ==
    [][(/\ last'.op = "message"
        /\ last'.ret \in {"handled", "threw"}
        /\ SchemaMiss(objs[last'.obj], last'.arg)
        /\ Segment(last'.arg.path, 3) # "button") =>
          /\ last'.ret = "handled"
          /\ Values(objs'[last'.obj]) = Values(objs[last'.obj])]_vars

----------------------------------------------------------------------------
(* One puck of the webhook build and the requests the web endpoint receives,
   for both versions of the endpoint. *)

Request(id, index, action, mac) ==
    [id |-> id, body |-> [index |-> index, action |-> action, mac |-> mac],
     ip |-> Address2]

\* The action codes of the generic callback and of the button callbacks,
\* and one code that stands for nothing.
ActionCodes == {"1", "2", "3", "20", "21", "8", "9", "begin", "end", "7"}

EnvHooks ==
    [macs |-> {"aa"},
     addresses |-> {Address1},
     maxObjects |-> 1,
     builds |-> {"webhook"},
     countPushes |-> FALSE,
     inOrder |-> TRUE,
     oneAtATime |-> TRUE,
     hardware |-> {HwMixed, HwDimmers},
     outcomes |-> [path \in Paths |-> {Ok200}],
     messages |-> {},
     snapshots |-> {},
     endpoints |-> {"strict", "lenient"},
     requests |->
         {Request("hook1", index, action, "AA") :
              index \in {"1", "5"}, action \in ActionCodes}
         \cup {Request("hook1", index, action, "AA") :
                  index \in {"0", "6", "x"}, action \in {"1", "8"}}
         \cup {Request("hook1", "2", "2", "aa"),
               Request("hook1", "3", "3", "aa"),
               Request("hook1", "4", "21", "aa"),
               Request("hook1", "4", "end", "aa"),
               Request("hook1", "undefined", "8", "AA"),
               Request("hook1", "1", "8", "undefined"),
               Request("hook1", "1", "8", "bb"),
               Request("hook9", "1", "8", "AA")}]

NextHooks ==
    \/ Discovery(EnvHooks)
    \/ CapabilityDone(EnvHooks)
    \/ DetailDone(EnvHooks)
    \/ EventListenerDone(EnvHooks)
    \/ WebEvent(EnvHooks)

SpecHooks == Init /\ [][NextHooks]_vars

\* The endpoint has passed the request to the device's handleGenericEvent.
PassedOn(l) == l.op = "webEvent" /\ l.ret \in {"204", "threw"}

\* The press event an action code of the generic callback stands for.
CodeEvent(code) ==
    CASE code = "1" -> "single" [] code = "2" -> "double" [] code = "3" -> "long"
      [] code = "20" -> "tripple" [] code = "21" -> "quadruple"

\* C18: a webhook event with index 1..4 and action code 1, 2, 3, 20 or 21
\* fires exactly the single, double, long, triple or quadruple press event of
\* that key and changes no property value; code 8 or begin sets the key's
\* pressed property to true, code 9 or end sets it to false.
WebhookKeyEvents ==
    [][(PassedOn(last') /\ last'.arg.request.body.index \in {"1", "2", "3", "4"}) =>
          LET body == last'.arg.request.body
              key == "key" \o body.index
          IN /\ last'.ret = "204"
             /\ body.action \in {"1", "2", "3", "20", "21"} =>
                    /\ last'.events = <<key \o CodeEvent(body.action)>>
                    /\ Values(objs'[last'.obj]) = Values(objs[last'.obj])
             /\ body.action \in {"8", "begin"} =>
                    /\ objs'[last'.obj].props[key].value = "true"
                    /\ last'.events = <<>>
             /\ body.action \in {"9", "end"} =>
                    /\ objs'[last'.obj].props[key].value = "false"
                    /\ last'.events = <<>>]_vars

\* The button callback of key 1 has reported the begin of a press, and the
\* key's pressed property is true.
KeyBeginSeen ==
    /\ PassedOn(last)
    /\ last.ret = "204"
    /\ last.arg.request.body.index = "1"
    /\ last.arg.request.body.action = "begin"
    /\ objs[last.obj].props["key1"].value = "true"

\* C19: a webhook event with index 5 sets the motion property of a device
\* with a motion sensor to true for the begin codes (8 or begin) and to false
\* for the end codes (9 or end); an event with an index outside 1..5 is
\* unhandled: no property value changes, no event fires, nothing is raised.
WebhookMotionAndReserved ==
    [][PassedOn(last') =>
          LET body == last'.arg.request.body
          IN /\ (body.index = "5" /\ "motion" \in DOMAIN objs[last'.obj].props) =>
                    /\ body.action \in {"8", "begin"} =>
                           objs'[last'.obj].props["motion"].value = "true"
                    /\ body.action \in {"9", "end"} =>
                           objs'[last'.obj].props["motion"].value = "false"
             /\ body.index \notin {"1", "2", "3", "4", "5"} =>
                    /\ last'.ret = "204"
                    /\ last'.events = <<>>
                    /\ Values(objs'[last'.obj]) = Values(objs[last'.obj])]_vars

\* C19 for the numeric codes 8 and 9 and the indices above 5 or not a number.
WebhookMotionNumericCodes ==
    [][PassedOn(last') =>
          LET body == last'.arg.request.body
          IN /\ (body.index = "5" /\ "motion" \in DOMAIN objs[last'.obj].props) =>
                    /\ body.action = "8" => objs'[last'.obj].props["motion"].value = "true"
                    /\ body.action = "9" => objs'[last'.obj].props["motion"].value = "false"
             /\ body.index \notin {"0", "1", "2", "3", "4", "5"} =>
                    /\ last'.ret = "204"
                    /\ last'.events = <<>>
                    /\ Values(objs'[last'.obj]) = Values(objs[last'.obj])]_vars

\* The request names a listener the endpoint knows.
KnownListener(request) == Listener(request.id) # 0

\* The request says which event of which device it reports, and the device
\* is the one its listener id stands for.
IdentifiesEvent(request) ==
    /\ BodyHas(request.body.index)
    /\ request.body.mac # "undefined"
    /\ DeviceId(request.body.mac) = objs[Listener(request.id)].id

\* C20: every webhook POST gets exactly one response: 204 when the listener
\* id is known and the request identifies an event of that device, 401 when
\* the listener id is unknown or the request is malformed; none is left
\* without a response.
EveryRequestAnswered ==
    last.op = "webEvent" =>
        IF KnownListener(last.arg.request) /\ IdentifiesEvent(last.arg.request)
        THEN last.ret = "204"
        ELSE last.ret = "401"

\* C20 for the requests with an unknown listener id and for the key events
\* that identify their device.
KeyRequestsAnswered ==
    last.op = "webEvent" =>
        /\ ~KnownListener(last.arg.request) => last.ret = "401"
        /\ (/\ KnownListener(last.arg.request)
            /\ IdentifiesEvent(last.arg.request)
            /\ last.arg.request.body.index \in {"1", "2", "3", "4"}) => last.ret = "204"

----------------------------------------------------------------------------
(* Commands: property writes and actions, and the transport calls they make. *)

\* The error client.publish hands to its callback.
PublishError == [kind |-> "publish", status |-> 0, text |-> ""]

\* A sendMqttEvent that publishes whether or not the device type is known.
SendMqttEventAlways(d, path, message) ==
    <<[kind |-> "publish", path |-> "dingz/" \o ToLowerCase(d.mac) \o "/" \o path,
       body |-> message]>>

\* Dingz.sendMqttEvent(path, message): the publishes it makes, none while the
\* device type is not known
SendMqttEvent(d, path, message) ==
    IF ~Truthy(d.deviceType)
    THEN <<>>
    ELSE <<[kind |-> "publish",
            path |-> "dingz/" \o ToLowerCase(d.mac) \o "/" \o d.deviceType \o "/" \o path,
            body |-> message]>>

\* this.device.apiCall(path, 'POST'): the requests it makes, none without an
\* address
ApiCallPost(d, path) ==
    IF NoAddress(d.address)
    THEN <<>>
    ELSE <<[kind |-> "post", path |-> path, body |-> <<>>]>>

\* A transport whose calls resolve whatever the broker and fetch produce.
SettleQuietly(sent, out) == [ret |-> "undefined", disconnect |-> FALSE, error |-> NoError]

\* A transport whose timed-out request leaves the device connected.
SettleConnected(sent, out) ==
    IF sent # <<>> /\ sent[1].kind = "post"
    THEN [ApiCallResult("POST", out.fetch) EXCEPT !.disconnect = FALSE]
    ELSE IF sent # <<>> /\ out.publishError
    THEN [ret |-> "raise", disconnect |-> FALSE, error |-> PublishError]
    ELSE [ret |-> "undefined", disconnect |-> FALSE, error |-> NoError]

\* How the transport calls of a command settle, given what the broker and
\* fetch produce: as apiCall's result for a request, rejected with the
\* broker's error for a publish, resolved at once when nothing was sent.
Settle(sent, out) ==
    IF sent = <<>>
    THEN [ret |-> "undefined", disconnect |-> FALSE, error |-> NoError]
    ELSE IF sent[1].kind = "post"
    THEN ApiCallResult("POST", out.fetch)
    ELSE IF out.publishError
    THEN [ret |-> "raise", disconnect |-> FALSE, error |-> PublishError]
    ELSE [ret |-> "undefined", disconnect |-> FALSE, error |-> NoError]

\* Device.getProperty(name): the cached value, rejected for a name the device
\* has no property of
GetProperty(d, name) ==
    IF HasProperty(d, name)
    THEN [ok |-> TRUE, value |-> d.props[name].value]
    ELSE [ok |-> FALSE, value |-> "undefined"]

\* The properties constructed as DingzProperty; all others take their
\* setValue from the base class.
IsShadeName(name) == \E i \in 1..2 : name \in {ShadeId(i), ShadeId(i) \o "Lamella"}
IsDimmerName(name) == \E i \in 1..4 : name \in {DimmerId(i), DimmerId(i) \o "Brightness"}
IsDingzProperty(name) ==
    \/ name \in {"led", "ledColor", "targetTemperature", "thermostatMode"}
    \/ IsShadeName(name)
    \/ IsDimmerName(name)

\* A shade write that sends the fallback value whatever the companion holds.
ShadeCommandBlind(d, name, value) ==
    LET i == CHOOSE k \in 1..2 : name \in {ShadeId(k), ShadeId(k) \o "Lamella"}
        body == IF name = ShadeId(i) \o "Lamella"
                THEN [position |-> "100", lamella |-> value]
                ELSE [position |-> value, lamella |-> "100"]
    IN IF d.build = "webhook"
       THEN ApiCallPost(d, "shade/" \o NumStr(i - 1) \o "?blind=" \o body.position
                            \o "&lamella=" \o body.lamella)
       ELSE SendMqttEvent(d, "command/motor/" \o NumStr(i - 1), body)

\* The shade branch of DingzProperty.setValue: the companion value is read
\* from the cache, 100 when the read is rejected, and the combined command
\* goes to the motor parseInt(index) - 1.
ShadeCommand(d, name, value) ==
    LET i == CHOOSE k \in 1..2 : name \in {ShadeId(k), ShadeId(k) \o "Lamella"}
        isLamella == name = ShadeId(i) \o "Lamella"
        companion == GetProperty(d, IF isLamella THEN ShadeId(i) ELSE name \o "Lamella")
        other == IF companion.ok THEN companion.value ELSE "100"
        body == IF isLamella
                THEN [position |-> other, lamella |-> value]
                ELSE [position |-> value, lamella |-> other]
    IN IF d.build = "webhook"
       THEN ApiCallPost(d, "shade/" \o NumStr(i - 1) \o "?blind=" \o body.position
                            \o "&lamella=" \o body.lamella)
       ELSE SendMqttEvent(d, "command/motor/" \o NumStr(i - 1), body)

\* The branches of DingzProperty.setValue up to the transport call: what is
\* sent, and whether the method returns before it reaches super.setValue.
Command(d, name, value) ==
    LET channels == CASE value = "#ff1000" -> [r |-> "255", g |-> "16", b |-> "0"]
                      [] value = "#0000ff" -> [r |-> "0", g |-> "0", b |-> "255"]
                      [] OTHER -> [r |-> "NaN", g |-> "NaN", b |-> "NaN"]
        color == CASE value = "#ff1000" -> "FF1000" [] value = "#0000ff" -> "0000FF"
                   [] OTHER -> value
        mode == GetProperty(d, "thermostatMode").value
        target == GetProperty(d, "targetTemperature").value
        enable(v) == IF v # "off" THEN "true" ELSE "false"
        go(sent) == [sent |-> sent, returned |-> FALSE]
    IN IF name = "led"
       THEN go(IF d.build = "webhook"
               THEN ApiCallPost(d, "led/set?action="
                                    \o (IF Truthy(value) THEN "on" ELSE "off"))
               ELSE SendMqttEvent(d, "command/led",
                                  [on |-> IF Truthy(value) THEN "1" ELSE "0"]))
       ELSE IF name = "ledColor"
       THEN IF d.build = "webhook"
            THEN go(ApiCallPost(d, "led/set?color=" \o color \o "&mode=rgb"))
            ELSE IF ~Truthy(value)
                 THEN [sent |-> <<>>, returned |-> TRUE]
                 ELSE go(SendMqttEvent(d, "command/led", channels))
       ELSE IF name = "targetTemperature"
       THEN go(IF d.build = "webhook"
               THEN ApiCallPost(d, "thermostat?target_temp=" \o value
                                    \o "&enable=" \o enable(mode))
               ELSE ApiCallPost(d, "thermostat/" \o mode \o "?temp=" \o value))
       ELSE IF name = "thermostatMode"
       THEN go(IF d.build = "webhook"
               THEN ApiCallPost(d, "thermostat?target_temp=" \o target
                                    \o "&enable=" \o enable(value))
               ELSE ApiCallPost(d, "thermostat/"
                                    \o (IF Truthy(value) THEN "on" ELSE "off")
                                    \o "?temp=" \o target))
       ELSE IF IsShadeName(name)
       THEN go(ShadeCommand(d, name, value))
       ELSE go(<<>>)

\* A base class that resolves without storing the value.
PropertyKeepValue(d, name, value) == [dev |-> d, ret |-> "resolved"]

\* Property.setValue of the base class: a read-only property rejects, any
\* other stores the value and notifies.
PropertySetValue(d, name, value) ==
    IF d.props[name].readOnly
    THEN [dev |-> d, ret |-> "rejected"]
    ELSE [dev |-> SetCachedValueAndNotify(d, name, value), ret |-> "resolved"]

\* property.setValue(value) from the gateway's request to the settled
\* promise, given what the transport produces.
SetValue(d0, name, value, out) ==
    Eval(d0, LAMBDA d :
    LET command == IF IsDingzProperty(name) THEN Command(d, name, value)
                   ELSE [sent |-> <<>>, returned |-> FALSE]
        result == Settle(command.sent, out)
        d1 == IF result.disconnect THEN ConnectedNotify(d, "false") ELSE d
        stored == PropertySetValue(d1, name, value)
    IN IF command.returned
       THEN [dev |-> d, sent |-> <<>>, ret |-> "resolved", error |-> NoError]
       ELSE IF result.ret = "raise"
       THEN [dev |-> d, sent |-> command.sent, ret |-> "rejected", error |-> result.error]
       ELSE [dev |-> stored.dev, sent |-> command.sent, ret |-> stored.ret,
             error |-> NoError])

\* Dingz.performAction(action) for an action of the schema.
PerformAction(d0, name, out) ==
    Eval(d0, LAMBDA d :
    LET sent == IF \E i \in 1..2 : name \in {ShadeId(i) \o a : a \in {"up", "down", "stop"}}
                THEN LET i == CHOOSE k \in 1..2 :
                                  name \in {ShadeId(k) \o a : a \in {"up", "down", "stop"}}
                         actionName == CHOOSE a \in {"up", "down", "stop"} :
                                           name = ShadeId(i) \o a
                         motion == CASE actionName = "stop" -> "0"
                                     [] actionName = "up" -> "1"
                                     [] actionName = "down" -> "2"
                     IN IF d.build = "webhook"
                        THEN ApiCallPost(d, "shade/" \o NumStr(i - 1) \o "/" \o actionName)
                        ELSE SendMqttEvent(d, "command/motor/" \o NumStr(i - 1),
                                           [motion |-> motion])
                ELSE IF d.build = "webhook"
                THEN <<>>
                ELSE LET i == CHOOSE k \in 1..4 : name = DimmerId(k) \o "toggle"
                     IN SendMqttEvent(d, "command/light/" \o NumStr(i - 1),
                                      [turn |-> "toggle"])
        result == Settle(sent, out)
    IN [dev |-> IF result.disconnect THEN ConnectedNotify(d, "false") ELSE d,
        sent |-> sent,
        ret |-> IF result.ret = "raise" THEN "rejected" ELSE "resolved",
        error |-> result.error])

\* The gateway writes a property of a device it has been told of; the
\* transport call settles within the step (after it the method only stores
\* the value it was given).
Write(E) ==
    \E o \in 1..Len(objs), w \in E.writes, out \in E.transports :
        /\ objs[o].phase = "announced"
        /\ HasProperty(objs[o], w.name)
        /\ \E r \in {SetValue(objs[o], w.name, w.value, out)} :
               /\ objs' = [objs EXCEPT ![o] = r.dev]
               /\ last' = [Ran("setValue", o,
                               [name |-> w.name, value |-> w.value, out |-> out,
                                before |-> Values(objs[o])],
                               r.ret, <<>>)
                             EXCEPT !.sent = r.sent, !.error = r.error]
        /\ UNCHANGED <<devices, calls, poller>>

\* The gateway invokes an action of a device it has been told of.
Act(E) ==
    \E o \in 1..Len(objs), out \in E.transports :
        \E name \in DOMAIN objs[o].actions :
            /\ objs[o].phase = "announced"
            /\ \E r \in {PerformAction(objs[o], name, out)} :
                   /\ objs' = [objs EXCEPT ![o] = r.dev]
                   /\ last' = [Ran("performAction", o, [name |-> name, out |-> out],
                                   r.ret, <<>>)
                                 EXCEPT !.sent = r.sent, !.error = r.error]
            /\ UNCHANGED <<devices, calls, poller>>

W(name, value) == [name |-> name, value |-> value]
Transport(publishError, fetch) == [publishError |-> publishError, fetch |-> fetch]

\* One puck of either build (a shutter, dimmers 1 and 2 and a thermostat),
\* found by discovery, that announces itself on the bus at some time, and the
\* gateway's writes and actions.
EnvWrites ==
    [macs |-> {"aa"},
     addresses |-> {Address1},
     maxObjects |-> 1,
     builds |-> {"mqtt", "webhook"},
     countPushes |-> FALSE,
     inOrder |-> TRUE,
     oneAtATime |-> TRUE,
     hardware |-> {HwMixed},
     outcomes |-> [path \in Paths |-> {Ok200}],
     messages |-> {AnnounceMessage("aa", Address1)},
     snapshots |-> {},
     writes |-> {W("led", "true"),
                 W("ledColor", "#ff1000"), W("ledColor", ""),
                 W("targetTemperature", "20"),
                 W("thermostatMode", "off"),
                 W("shade2", "30"), W("shade2Lamella", "60")},
     transports |-> {Transport(FALSE, Ok200), Transport(TRUE, NotFound404),
                     Transport(FALSE, TimedOut), Transport(FALSE, Unreachable)}]

NextWrites ==
    \/ Discovery(EnvWrites)
    \/ ConfigureMqttDone(EnvWrites)
    \/ CapabilityDone(EnvWrites)
    \/ DetailDone(EnvWrites)
    \/ EventListenerDone(EnvWrites)
    \/ Message(EnvWrites)
    \/ Write(EnvWrites)
    \/ Act(EnvWrites)

SpecWrites == Init /\ [][NextWrites]_vars

----------------------------------------------------------------------------
(* Commands and their transport calls. *)

\* The properties and actions that map to a command of the puck.
CommandProperties ==
    {"led", "ledColor", "targetTemperature", "thermostatMode"}
    \cup {ShadeId(i) : i \in 1..2} \cup {ShadeId(i) \o "Lamella" : i \in 1..2}
IsCommand ==
    \/ last.op = "setValue" /\ last.arg.name \in CommandProperties
    \/ last.op = "performAction"

\* C21: each write to led, ledColor, targetTemperature, thermostatMode,
\* shadeN or shadeNLamella, and each shade up/down/stop or dimmer toggle
\* action, issues exactly one transport call (a POST or a publish).
ExactlyOneTransportCall == IsCommand => Len(last.sent) = 1

\* A command never issues more than one transport call, and on the
\* message-bus build it issues one when the device type is known and the
\* write is not one of an empty LED colour.
OneTransportCallWhenTypeKnown ==
    IsCommand =>
        /\ Len(last.sent) <= 1
        /\ (/\ objs[last.obj].build = "mqtt"
            /\ Truthy(objs[last.obj].deviceType)
            /\ ~(last.op = "setValue" /\ last.arg.name = "ledColor"
                 /\ ~Truthy(last.arg.value)))
           => Len(last.sent) = 1

\* One puck of either build with dimmers, and the gateway's writes to the
\* dimmer properties and to a read-only property.
EnvDimmerWrites ==
    [EnvWrites EXCEPT
        !.hardware = {HwMixed, HwDimmers},
        !.writes = {W("dimmer1", "true"), W("dimmer1", "false"),
                    W("dimmer2Brightness", "55"), W("dimmer4Brightness", "10"),
                    W("dimmer1Power", "5")}]

NextDimmerWrites ==
    \/ Discovery(EnvDimmerWrites)
    \/ ConfigureMqttDone(EnvDimmerWrites)
    \/ CapabilityDone(EnvDimmerWrites)
    \/ DetailDone(EnvDimmerWrites)
    \/ EventListenerDone(EnvDimmerWrites)
    \/ Message(EnvDimmerWrites)
    \/ Write(EnvDimmerWrites)

SpecDimmerWrites == Init /\ [][NextDimmerWrites]_vars

\* C22: a write to a dimmer on/off or dimmer brightness property issues no
\* transport call, is accepted, and leaves the written value in the cache.
DimmerWriteOnlyCaches ==
    (last.op = "setValue" /\ IsDimmerName(last.arg.name)) =>
        /\ last.sent = <<>>
        /\ last.ret = "resolved"
        /\ objs[last.obj].props[last.arg.name].value = last.arg.value

\* A dimmer brightness that held another value has been written.
DimmerWrittenSeen ==
    /\ last.op = "setValue"
    /\ last.arg.name = "dimmer2Brightness"
    /\ last.arg.before["dimmer2Brightness"] # "55"
    /\ last.sent = <<>>
    /\ objs[last.obj].props["dimmer2Brightness"].value = "55"

\* The last step is a write of the position (lamella FALSE) or the slat
\* angle (lamella TRUE) of shutter i.
ShadeWritten(i, lamella) ==
    /\ last.op = "setValue"
    /\ last.arg.name = (IF lamella THEN ShadeId(i) \o "Lamella" ELSE ShadeId(i))

\* Whether call c is the combined command for motor i - 1 with the given
\* position and slat angle, in the transport of the build.
IsMotorCommand(c, d, i, position, lamella) ==
    IF d.build = "webhook"
    THEN /\ c.kind = "post"
         /\ c.path = "shade/" \o NumStr(i - 1) \o "?blind=" \o position
                        \o "&lamella=" \o lamella
    ELSE /\ c.kind = "publish"
         /\ c.path = "dingz/" \o ToLowerCase(d.mac) \o "/" \o d.deviceType
                        \o "/command/motor/" \o NumStr(i - 1)
         /\ c.body = [position |-> position, lamella |-> lamella]

\* What a shade write has to carry: the written value and the companion
\* value the cache held before the write.
CarriesCompanion(c, i, lamella) ==
    IF lamella
    THEN IsMotorCommand(c, objs[last.obj], i, last.arg.before[ShadeId(i)], last.arg.value)
    ELSE IsMotorCommand(c, objs[last.obj], i, last.arg.value,
                        last.arg.before[ShadeId(i) \o "Lamella"])

\* Every shade write sends one command, whether or not the device type is
\* known.
ShadeWriteIssuesMotorCommand ==
    \A i \in 1..2, lamella \in BOOLEAN :
        ShadeWritten(i, lamella) =>
            /\ Len(last.sent) = 1
            /\ CarriesCompanion(last.sent[1], i, lamella)

TransportFailed(c, out) ==
    IF c.kind = "publish"
    THEN out.publishError
    ELSE \/ out.fetch.kind = "response" /\ ~(out.fetch.status \in 200..299)
         \/ /\ out.fetch.kind = "error"
            /\ ~(out.fetch.type = "system"
                 /\ out.fetch.code \in {"ETIMEDOUT", "EHOSTUNREACH"})

\* C24: when the transport call of a property write fails with an error
\* other than timeout or host-unreachable, the write is rejected with that
\* error and every cached value of the device is what it was before.
FailedWriteIsRejected ==
    (/\ last.op = "setValue"
     /\ Len(last.sent) = 1
     /\ TransportFailed(last.sent[1], last.arg.out))
    => /\ last.ret = "rejected"
       /\ last.error # NoError
       /\ Values(objs[last.obj]) = last.arg.before

\* A write of a value the cache does not hold has failed.
FailedWriteSeen ==
    /\ last.op = "setValue"
    /\ last.arg.name \in {"led", "targetTemperature"}
    /\ last.arg.before[last.arg.name] # last.arg.value
    /\ objs[last.obj].props[last.arg.name].value # last.arg.value
    /\ Len(last.sent) = 1
    /\ TransportFailed(last.sent[1], last.arg.out)
    /\ last.ret = "rejected"

----------------------------------------------------------------------------
(* DevicePoller: the shared poll timer of the webhook build, and the removal
   of a device. *)

\* DevicePoller.destroy(): the timer behind the handle is cleared, the handle
\* forgotten and the device set replaced by an empty one.
Destroy(p) ==
    [p EXCEPT !.active = @ \ {p.timer}, !.timer = 0, !.devices = {}]

\* A removal that leaves the device in the set.
RemoveNoDevice(p, o) == p

\* DevicePoller.removeDevice(device)
RemoveDevice(p, o) ==
    LET q == [p EXCEPT !.devices = @ \ {o}]
    IN IF q.devices = {} THEN Destroy(q) ELSE q

\* A tick that polls no device.
NotifyNoDevices(p) == {}

\* DevicePoller.notifyDevices(): the devices whose poll() a tick calls
NotifyDevices(p) == p.devices

\* getPollInterval() settles: its then-handler makes a timer with setInterval
\* and keeps its handle, or the lookup failed and the error is logged.
LookupDone(E) ==
    \E ok \in E.lookup :
        /\ poller.lookups > 0
        /\ poller' = IF ok
                     THEN [poller EXCEPT !.lookups = @ - 1, !.made = @ + 1,
                                         !.timer = poller.made + 1,
                                         !.active = @ \cup {poller.made + 1}]
                     ELSE [poller EXCEPT !.lookups = @ - 1]
        /\ last' = Ran("getPollInterval", 0, <<>>, IF ok THEN "timer" ELSE "logged", <<>>)
        /\ UNCHANGED <<objs, devices, calls>>

\* Whether poll() of object o sends its state request and the request is
\* followed: it is not for a disconnected device or one without an address,
\* and a request beyond MaxPolls in flight is one that is never answered.
PollIsFollowed(o) ==
    /\ ~PollReturnsAtOnce(objs[o])
    /\ ~NoAddress(objs[o].address)
    /\ Cardinality(PollsInFlight(o)) < MaxPolls

\* A timer made by setInterval fires: notifyDevices() calls poll() of every
\* device of the set, each up to its first suspension.
Tick(E) ==
    \E t \in poller.active : \E state \in [NotifyDevices(poller) -> E.snapshots] :
        /\ calls' = calls \cup
               {[Call(o, "state", "GET") EXCEPT
                     !.slot = CHOOSE n \in 1..MaxPolls :
                                  /\ \A c \in PollsInFlight(o) : c.slot # n
                                  /\ \A m \in 1..(n - 1) :
                                         \E c \in PollsInFlight(o) : c.slot = m,
                     !.snap = state[o]] :
                o \in {q \in NotifyDevices(poller) : PollIsFollowed(q)}}
        /\ last' = Ran("notifyDevices", 0,
                        [timer |-> t, polled |-> NotifyDevices(poller),
                         inFlight |-> {c.obj : c \in {k \in calls : k.path = "state"}}],
                        "done", <<>>)
        /\ UNCHANGED <<objs, devices, poller>>

\* DingzAdapter.handleDeviceRemoved(device) for a device the gateway has been
\* told of: the webhook build forgets its listener id and takes it out of the
\* poller, and the adapter's entry is deleted. No request in flight is
\* cancelled.
HandleDeviceRemoved(E) ==
    \E o \in 1..Len(objs) :
        /\ E.removals
        /\ objs[o].phase = "announced"
        /\ GetDevice(objs[o].id) = o
        /\ objs' = [objs EXCEPT ![o].phase = "removed",
                                ![o].listener = IF objs[o].build = "webhook"
                                                THEN "undefined" ELSE @]
        /\ poller' = IF objs[o].build = "webhook" THEN RemoveDevice(poller, o) ELSE poller
        /\ devices' = [devices EXCEPT ![objs[o].id] = 0]
        /\ last' = Ran("handleDeviceRemoved", o, [before |-> Values(objs[o])],
                        "undefined", <<>>)
        /\ UNCHANGED calls

\* Two pucks of the webhook build that come and go while the timer polls
\* them; a state request is answered, refused with a status, or times out.
EnvPoller ==
    [macs |-> {"aa", "bb"},
     addresses |-> {Address1},
     maxObjects |-> MaxDevices,
     builds |-> {"webhook"},
     countPushes |-> FALSE,
     inOrder |-> TRUE,
     oneAtATime |-> TRUE,
     hardware |-> {HwDimmers},
     outcomes |-> [path \in Paths |->
                      IF path = "state" THEN {Ok200, NotFound404, TimedOut} ELSE {Ok200}],
     messages |-> {},
     snapshots |-> {Snapshot("3", "true", "rgb")},
     lookup |-> {TRUE, FALSE},
     removals |-> TRUE]

NextPoller ==
    \/ Discovery(EnvPoller)
    \/ CapabilityDone(EnvPoller)
    \/ DetailDone(EnvPoller)
    \/ EventListenerDone(EnvPoller)
    \/ LookupDone(EnvPoller)
    \/ Tick(EnvPoller)
    \/ PollDone(EnvPoller)
    \/ HandleDeviceRemoved(EnvPoller)

SpecPoller == Init /\ [][NextPoller]_vars

\* C25: a timer tick calls poll() of every device of the poller's set, and
\* a state request goes out for each that is connected and has an address,
\* whatever became of the other devices' polls; the end of a poll, failed or
\* not, changes no other device and leaves the poller and its timer alone.
TickPollsEveryDevice ==
    [][/\ last'.op = "notifyDevices" =>
             /\ last'.arg.polled = poller.devices
             /\ \A o \in poller.devices :
                    PollIsFollowed(o) =>
                        \E c \in calls' \ calls : c.obj = o /\ c.path = "state"
             /\ poller' = poller
       /\ last'.op = "pollDone" =>
             /\ \A o \in 1..Len(objs) : o # last'.obj => objs'[o] = objs[o]
             /\ poller' = poller]_vars

\* A poll has failed beside a polled sibling while the timer runs.
FailedPollBesideSibling ==
    /\ last.op = "pollDone"
    /\ last.ret \in {"raised", "threw"}
    /\ poller.timer \in poller.active
    /\ \E o \in poller.devices :
           /\ o # last.obj
           /\ last.obj \in poller.devices
           /\ objs[o].props["lightLevel"].value = "3"

\* A tick has polled a device while its sibling's request was unanswered.
TickBesideUnansweredSeen ==
    /\ last.op = "notifyDevices"
    /\ \E o \in last.arg.polled :
           /\ o \notin last.arg.inFlight
           /\ last.arg.inFlight # {}
           /\ \E c \in calls : c.obj = o /\ c.path = "state"

\* C26: once handleDeviceRemoved(device) has run, no tick calls poll() of
\* that device and none sends a state request for it.
RemovedDeviceNotPolled ==
    [][last'.op = "notifyDevices" =>
          \A o \in 1..Len(objs) :
              objs[o].phase = "removed" =>
                  /\ o \notin last'.arg.polled
                  /\ ~\E c \in calls' \ calls : c.obj = o]_vars

\* A tick has polled the sibling of a removed device.
TickAfterRemovalSeen ==
    /\ last.op = "notifyDevices"
    /\ last.arg.polled # {}
    /\ \E o \in 1..Len(objs) : objs[o].phase = "removed" /\ o \notin last.arg.polled
    /\ \E c \in calls : c.obj \in last.arg.polled /\ c.path = "state"

\* C27: the result of a state request that completes after its device has
\* been removed is discarded: no property value of the removed device
\* changes.
RemovedPollDiscarded ==
    [][(last'.op = "pollDone" /\ objs[last'.obj].phase = "removed")
          => Values(objs'[last'.obj]) = Values(objs[last'.obj])]_vars

\* The removal of a device cancels none of its requests in flight.
RemovalCancelsNothing ==
    [][last'.op = "handleDeviceRemoved" => calls' = calls]_vars

----------------------------------------------------------------------------
(* The hardware configuration code and the schema. *)

\* The capabilities configuration code dip stands for.
HasShutter(dip, i) == IF i = 1 THEN dip \in {0, 2} ELSE dip \in {0, 1}
HasDimmerGroup(dip, g) == IF g = 1 THEN dip \in {1, 3} ELSE dip \in {2, 3}
GroupOf(i) == IF i <= 2 THEN 1 ELSE 2

\* C28: for dip in 0..3, shutter 1 is present iff dip is 0 or 2, shutter 2
\* iff dip is 0 or 1, dimmer group 1 iff dip is 1 or 3 and dimmer group 2 iff
\* dip is 2 or 3; and the registered schema has the shadeN properties exactly
\* for the present shutters and the dimmerN properties exactly for the
\* present groups, apart from a dimmerNPower that is the thermostat's valve
\* power.
DipDecidesSchema ==
    \A o \in 1..Len(objs) :
        SchemaRegistered(o) =>
            LET d == objs[o]
                dip == d.puck.dip
            IN /\ dip \in 0..3
               /\ d.shade1 = HasShutter(dip, 1)
               /\ d.shade2 = HasShutter(dip, 2)
               /\ d.dimmerGroup1 = HasDimmerGroup(dip, 1)
               /\ d.dimmerGroup2 = HasDimmerGroup(dip, 2)
               /\ \A i \in 1..2 : \A suffix \in {"", "Lamella", "Power"} :
                      HasProperty(d, ShadeId(i) \o suffix) = HasShutter(dip, i)
               /\ \A i \in 1..4 :
                      /\ \A suffix \in {"", "Brightness"} :
                             HasProperty(d, DimmerId(i) \o suffix)
                                 = HasDimmerGroup(dip, GroupOf(i))
                      /\ HasDimmerGroup(dip, GroupOf(i))
                             => HasProperty(d, DimmerId(i) \o "Power")
                      /\ (HasProperty(d, DimmerId(i) \o "Power")
                          /\ ~HasDimmerGroup(dip, GroupOf(i)))
                             => /\ d.thermostat
                                /\ d.props[DimmerId(i) \o "Power"].title
                                       = "Thermostat Valve Power"

\* A puck with code 2 has been announced with shutter 1 and dimmers 3 and 4
\* only.
DipTwoSchemaSeen ==
    \E o \in 1..Len(objs) :
        /\ objs[o].phase = "announced"
        /\ objs[o].puck.dip = 2
        /\ HasProperty(objs[o], "shade1") /\ ~HasProperty(objs[o], "shade2")
        /\ HasProperty(objs[o], "dimmer3") /\ ~HasProperty(objs[o], "dimmer1")

----------------------------------------------------------------------------
(* The schema over the lifetime of an announced device. *)

\* One puck of either build that is rediscovered, announces itself, pushes
\* deltas (one of them for a dimmer it does not have), is polled, calls the
\* web endpoint and is written to.
EnvLifetime ==
    [macs |-> {"aa"},
     addresses |-> {Address1, Address2},
     maxObjects |-> 1,
     builds |-> {"mqtt", "webhook"},
     countPushes |-> FALSE,
     inOrder |-> TRUE,
     oneAtATime |-> TRUE,
     hardware |-> {HwMixed},
     outcomes |-> [path \in Paths |->
                      IF path = "state" THEN {Ok200, TimedOut} ELSE {Ok200}],
     messages |-> {AnnounceMessage("aa", Address2),
                   PushMessage("aa", <<"dz1f", "power", "light", "3">>,
                               Json(Prim("number", "5"))),
                   PushMessage("aa", <<"dz1f", "state", "thermostat">>,
                               Json(Obj(("status" :> "on") @@ ("mode" :> "heating")
                                        @@ ("target" :> "20"))))},
     snapshots |-> {Snapshot("3", "true", "rgb")},
     endpoints |-> {"lenient"},
     requests |-> {Request("hook1", "1", "1", "AA"), Request("hook1", "5", "8", "AA")},
     writes |-> {W("led", "false"), W("shade2", "30")},
     transports |-> {Transport(FALSE, Ok200), Transport(TRUE, NotFound404)}]

NextLifetime ==
    \/ Discovery(EnvLifetime)
    \/ ConfigureMqttDone(EnvLifetime)
    \/ CapabilityDone(EnvLifetime)
    \/ DetailDone(EnvLifetime)
    \/ EventListenerDone(EnvLifetime)
    \/ Message(EnvLifetime)
    \/ Poll(EnvLifetime)
    \/ PollDone(EnvLifetime)
    \/ WebEvent(EnvLifetime)
    \/ Write(EnvLifetime)

SpecLifetime == Init /\ [][NextLifetime]_vars

\* C29: once a device is announced, no poll, push message, discovery report,
\* webhook event or property write changes the set of its property ids or
\* the type, the read-only flag or the visibility of a property.
AnnouncedSchemaIsFixed ==
    [][\A o \in 1..Len(objs) :
          objs[o].phase = "announced" =>
              /\ DOMAIN objs'[o].props = DOMAIN objs[o].props
              /\ \A n \in DOMAIN objs[o].props :
                     /\ objs'[o].props[n].type = objs[o].props[n].type
                     /\ objs'[o].props[n].readOnly = objs[o].props[n].readOnly
                     /\ objs'[o].props[n].visible = objs[o].props[n].visible]_vars

\* A push message for a dimmer the announced device does not have has been
\* handled after a poll has refreshed the bounds of the target temperature.
SchemaMissAfterPollSeen ==
    /\ last.op = "message"
    /\ last.obj \in 1..Len(objs)
    /\ last.arg.path = <<"dz1f", "power", "light", "3">>
    /\ objs[last.obj].phase = "announced"
    /\ ~HasProperty(objs[last.obj], "dimmer4Power")
    /\ objs[last.obj].props["targetTemperature"].maximum = "30"

----------------------------------------------------------------------------
(* The online message. *)

\* Handler run l is mqttEvent for an online message of a known device.
IsOnlinePush(l) ==
    /\ l.op = "message"
    /\ l.ret = "handled"
    /\ l.arg.path = <<"online">>

\* C30: an online message for a known device sets the connectivity flag from
\* the message (true: connected, false: disconnected), changes no property
\* value, and leaves the flag a boolean.
OnlineSetsBooleanConnectivity ==
    [][IsOnlinePush(last') =>
          LET message == ParseMessage(last'.arg.path, last'.arg.raw).message
          IN /\ message.t = "boolean" => objs'[last'.obj].connected = message.v
             /\ Values(objs'[last'.obj]) = Values(objs[last'.obj])
             /\ objs'[last'.obj].connected \in {"true", "false"}]_vars

\* C30 for the payloads true and false: the flag is the payload; and for
\* every payload no property value changes.
OnlineBooleanSetsConnectivity ==
    [][IsOnlinePush(last') =>
          LET message == ParseMessage(last'.arg.path, last'.arg.raw).message
          IN /\ message.t = "boolean" => objs'[last'.obj].connected = message.v
             /\ Values(objs'[last'.obj]) = Values(objs[last'.obj])]_vars

----------------------------------------------------------------------------
(* Thermostat writes. *)

\* The last step is a write of thermostat property name that made a request.
ThermostatWritten(name) ==
    /\ last.op = "setValue"
    /\ last.arg.name = name
    /\ Len(last.sent) = 1

\* The enable state a written or cached thermostat mode stands for, as the
\* API of the build spells it.
EnableState(build, mode) ==
    IF build = "webhook"
    THEN (IF mode # "off" THEN "true" ELSE "false")
    ELSE (IF mode # "off" THEN "on" ELSE "off")

\* A targetTemperature write carries the written temperature and the mode
\* cached before the write.
TargetWriteCarriesMode ==
    ThermostatWritten("targetTemperature") =>
        LET d == objs[last.obj]
            mode == last.arg.before["thermostatMode"]
        IN last.sent[1].path =
               IF d.build = "webhook"
               THEN "thermostat?target_temp=" \o last.arg.value
                        \o "&enable=" \o EnableState(d.build, mode)
               ELSE "thermostat/" \o mode \o "?temp=" \o last.arg.value

\* A thermostatMode write carries the target temperature cached before the
\* write.
ModeWriteCarriesTarget ==
    ThermostatWritten("thermostatMode") =>
        LET d == objs[last.obj]
            target == last.arg.before["targetTemperature"]
        IN \E enable \in {"true", "false", "on", "off"} :
               last.sent[1].path =
                   IF d.build = "webhook"
                   THEN "thermostat?target_temp=" \o target \o "&enable=" \o enable
                   ELSE "thermostat/" \o enable \o "?temp=" \o target

\* A thermostatMode write carries the enable state of the written mode.
ModeWriteCarriesEnable ==
    ThermostatWritten("thermostatMode") =>
        LET d == objs[last.obj]
            target == last.arg.before["targetTemperature"]
            enable == EnableState(d.build, last.arg.value)
        IN last.sent[1].path =
               IF d.build = "webhook"
               THEN "thermostat?target_temp=" \o target \o "&enable=" \o enable
               ELSE "thermostat/" \o enable \o "?temp=" \o target

\* C31: a targetTemperature write issues a thermostat command carrying the
\* written temperature and the thermostat mode cached at the time of the
\* write, and a thermostatMode write issues one carrying the written enable
\* state and the target temperature cached at the time of the write.
ThermostatWriteCarriesPair ==
    /\ TargetWriteCarriesMode
    /\ ModeWriteCarriesEnable

\* C31 without the enable state of a thermostatMode write: each write
\* carries its own value's companion as cached before the write.
ThermostatWriteCarriesCompanion ==
    /\ TargetWriteCarriesMode
    /\ ModeWriteCarriesTarget

\* C31 on the build that talks HTTP only.
WebhookThermostatWriteCarriesPair ==
    (last.op = "setValue" /\ objs[last.obj].build = "webhook")
        => ThermostatWriteCarriesPair

----------------------------------------------------------------------------
(* Reports of one puck that arrive while its first object is still being
   constructed. *)

\* One puck that is reported by discovery and by its announce message at any
\* time, also while requests of an earlier object are unanswered.
EnvRace ==
    [EnvDiscovery EXCEPT
        !.macs = {"aa"},
        !.addresses = {Address1, Address2},
        !.oneAtATime = FALSE,
        !.outcomes = [path \in Paths |-> {Ok200}],
        !.messages = {AnnounceMessage("aa", Address2)}]

NextRace ==
    \/ Discovery(EnvRace)
    \/ ConfigureMqttDone(EnvRace)
    \/ CapabilityDone(EnvRace)
    \/ DetailDone(EnvRace)
    \/ Message(EnvRace)

SpecRace == Init /\ [][NextRace]_vars

\* C32: at most one device object is constructed per MAC (no device is
\* removed in these behaviours): a discovery or announce for the MAC of a
\* device that is still resolving its capabilities constructs no second one.
OneObjectPerMac ==
    \A a, b \in 1..Len(objs) : objs[a].mac = objs[b].mac => a = b

\* An object is constructed only for a MAC no device is registered under.
ConstructedOnlyWhenUnregistered ==
    [][Len(objs') > Len(objs) => ~HasDevice(objs'[Len(objs')].id)]_vars

----------------------------------------------------------------------------
(* The lifecycle of the poll timer. *)

\* C33: at most one poll interval timer is active at any time, under every
\* interleaving of addDevice, removeDevice and the completion of the
\* poll-interval lookup.
AtMostOneTimer == Cardinality(poller.active) <= 1

\* The timer handle is empty or refers to an active timer.
HandleIsActiveTimer == poller.timer = 0 \/ poller.timer \in poller.active

\* C34: whenever the poller's device set is empty no poll timer is active,
\* also after a poll-interval lookup started earlier has completed.
NoTimerWhileEmpty == poller.devices = {} => poller.active = {}

\* The removal of the last device clears the timer the handle refers to and
\* the handle.
LastRemovalClearsHandle ==
    [][(last'.op = "handleDeviceRemoved" /\ poller'.devices = {})
          => (poller'.timer = 0 /\ poller.timer \notin poller'.active)]_vars

----------------------------------------------------------------------------
(* The values polls and push messages give the thermostat properties. *)

\* A step of one of the handlers in ops leaves the value of property name
\* of the device it ran for as it was or makes it one of allowed.
StoresOnly(ops, name, allowed) ==
    (/\ last'.op \in ops
     /\ last'.obj \in 1..Len(objs)
     /\ HasProperty(objs[last'.obj], name))
    => \/ objs'[last'.obj].props[name].value = objs[last'.obj].props[name].value
       \/ objs'[last'.obj].props[name].value \in allowed

\* C35: every value a poll or a push message gives thermostatMode is one of
\* off, heat, cool, and every value it gives thermostatState is one of off,
\* heating, cooling.
ThermostatValuesInEnum ==
    [][/\ StoresOnly({"message", "pollDone"}, "thermostatMode", {"off", "heat", "cool"})
       /\ StoresOnly({"message", "pollDone"}, "thermostatState",
                     {"off", "heating", "cooling"})]_vars

\* C35 for thermostatState, and for thermostatMode as polls store it.
ThermostatStateInEnum ==
    [][/\ StoresOnly({"pollDone"}, "thermostatMode", {"off", "heat", "cool"})
       /\ StoresOnly({"message", "pollDone"}, "thermostatState",
                     {"off", "heating", "cooling"})]_vars

----------------------------------------------------------------------------
(* The on/off value of a dimmer, from a push message and from a poll. *)

\* The on/off value of dimmer n + 1 of device d after the push message
\* state/light/<n> that reports the light on or off.
PushedDimmer(d, n, on) ==
    LET path == <<"dz1f", "state", "light", NumStr(n)>>
        raw == Json(Obj(("turn" :> (IF on = "true" THEN "on" ELSE "off"))
                        @@ ("brightness" :> "55")))
    IN MqttEvent(d, path, ParseMessage(path, raw).message).dev.props[DimmerId(n + 1)].value

\* The on/off value of dimmer n + 1 of device d after a poll whose snapshot
\* reports the light on or off.
PolledDimmer(d, n, on) ==
    LET state == [Snapshot("3", "true", "rgb") EXCEPT !.dimmers[n + 1].on = on]
    IN ApplySnapshot(d, state).dev.props[DimmerId(n + 1)].value

\* The dimmers n + 1 of announced device o that polls and push messages
\* both write.
SharedDimmers(o) ==
    {n \in 0..3 : /\ objs[o].phase = "announced"
                  /\ HasProperty(objs[o], DimmerId(n + 1))
                  /\ DimmerIsPolled(objs[o], Dimmer(n, "true", "0"))}

\* C36: for the same light state of hardware dimmer n, a state/light/<n>
\* push message and a poll snapshot give dimmer(n+1) the same on/off value,
\* true when the light is on and false when it is off.
PushAndPollAgreeOnDimmer ==
    \A o \in 1..Len(objs) : \A n \in SharedDimmers(o) : \A on \in {"true", "false"} :
        /\ PushedDimmer(objs[o], n, on) = PolledDimmer(objs[o], n, on)
        /\ PolledDimmer(objs[o], n, on) = on

\* A poll gives the dimmer the light state; a push message gives it the
\* opposite.
PushInvertsPolledDimmer ==
    \A o \in 1..Len(objs) : \A n \in SharedDimmers(o) : \A on \in {"true", "false"} :
        /\ PolledDimmer(objs[o], n, on) = on
        /\ PushedDimmer(objs[o], n, on) # on
        /\ PushedDimmer(objs[o], n, on) \in {"true", "false"}

----------------------------------------------------------------------------
(* Writes whose request times out. *)

\* The last step is a property write whose one request has timed out or
\* found the host unreachable.
WriteTimedOut ==
    /\ last.op = "setValue"
    /\ Len(last.sent) = 1
    /\ last.sent[1].kind = "post"
    /\ IsUnreachable(last.arg.out.fetch)

\* C37: a property write whose transport call fails with a timeout or an
\* unreachable host resolves to its requester, marks the device
\* disconnected, and sets the cached value to the written value.
TimedOutWriteStoresValue ==
    WriteTimedOut =>
        /\ last.ret = "resolved"
        /\ last.error = NoError
        /\ objs[last.obj].connected = "false"
        /\ objs[last.obj].props[last.arg.name].value = last.arg.value

\* A write of a value the cache did not hold has timed out on either build
\* and the cache holds the value.
TimedOutWriteSeen ==
    /\ WriteTimedOut
    /\ last.arg.name \in {"led", "targetTemperature"}
    /\ last.arg.before[last.arg.name] # last.arg.value
    /\ objs[last.obj].props[last.arg.name].value = last.arg.value
    /\ objs[last.obj].connected = "false"
    /\ last.ret = "resolved"

----------------------------------------------------------------------------
(* Commands before the device type is known. *)

\* The last step is a write or an action on a device of the message-bus
\* build that has not learned its device type from a message.
BeforeDeviceType ==
    /\ last.op \in {"setValue", "performAction"}
    /\ objs[last.obj].build = "mqtt"
    /\ ~Truthy(objs[last.obj].deviceType)

\* No command is published for a device whose device type is not known.
PublishedOnlyWithDeviceType ==
    (/\ last.op \in {"setValue", "performAction"}
     /\ \E i \in 1..Len(last.sent) : last.sent[i].kind = "publish")
    => Truthy(objs[last.obj].deviceType)

IsBusCommand ==
    \/ last.op = "performAction"
    \/ /\ last.op = "setValue"
       /\ \/ last.arg.name \in {"led", "ledColor"}
          \/ IsShadeName(last.arg.name)

----------------------------------------------------------------------------
(* Callbacks that name another device. *)

\* Handler run l is handleEvent for a request whose listener id is known and
\* whose mac field names another device than the one registered for it.
IsImpostor(l) ==
    /\ l.op = "webEvent"
    /\ l.obj \in 1..Len(objs)
    /\ l.arg.request.body.mac # "undefined"
    /\ DeviceId(l.arg.request.body.mac) # objs[l.obj].id

\* C39: a webhook callback whose mac field names a different device than
\* the one registered for the listener id changes no device state: no
\* property, connectivity or address of any device changes and no event is
\* fired.
ImpostorChangesNothing ==
    [][IsImpostor(last') => (objs' = objs /\ last'.events = <<>>)]_vars

\* C39 for the endpoint that returns when the names differ.
StrictImpostorChangesNothing ==
    [][(IsImpostor(last') /\ last'.arg.version = "strict")
          => (objs' = objs /\ last'.events = <<>> /\ last'.ret = "none")]_vars

----------------------------------------------------------------------------
(* The owner of each output pair, and the power values a poll writes. *)

\* A snapshot whose four power outputs carry values that tell them apart.
MarkedSnapshot ==
    [Snapshot("3", "true", "rgb") EXCEPT !.power_outputs = <<"10", "11", "12", "13">>]

\* Pucks of every hardware configuration code, polled in light and in dark;
\* a state request is answered or times out.
EnvPairs ==
    [EnvSync EXCEPT
        !.hardware = {HwShades, HwMixed, HwLamella, HwDimmers, HwValve3},
        !.outcomes = [path \in Paths |->
                         IF path = "state" THEN {Ok200, TimedOut} ELSE {Ok200}],
        !.messages = {},
        !.snapshots = {MarkedSnapshot, [MarkedSnapshot EXCEPT !.brightness = "9"]}]

NextPairs ==
    \/ Discovery(EnvPairs)
    \/ ConfigureMqttDone(EnvPairs)
    \/ CapabilityDone(EnvPairs)
    \/ DetailDone(EnvPairs)
    \/ Poll(EnvPairs)
    \/ PollDone(EnvPairs)

SpecPairs == Init /\ [][NextPairs]_vars

\* Property name of device d holds the value of power output j (from 0) of
\* the marked snapshot.
HoldsOutput(d, name, j) ==
    HasProperty(d, name) /\ d.props[name].value = MarkedSnapshot.power_outputs[j + 1]

\* Each output pair of object o is owned by exactly one capability.
PairsHaveOneOwner(o) ==
    /\ objs[o].puck.dip \in 0..3
    /\ objs[o].shade1 # objs[o].dimmerGroup1
    /\ objs[o].shade2 # objs[o].dimmerGroup2

\* C40: for every hardware configuration code exactly one of shutter 1 and
\* dimmer group 1 and exactly one of shutter 2 and dimmer group 2 is
\* present, and no poll writes both a shade power and a dimmer power
\* property from the same power output.
NoOutputFeedsShadeAndDimmer ==
    \A o \in 1..Len(objs) :
        SchemaRegistered(o) =>
            /\ PairsHaveOneOwner(o)
            /\ \A j \in 0..3 : \A s \in 1..2, k \in 1..4 :
                   ~(/\ HoldsOutput(objs[o], ShadeId(s) \o "Power", j)
                     /\ HoldsOutput(objs[o], DimmerId(k) \o "Power", j))

\* C40 with the thermostat's valve set apart: no poll writes a shade power
\* and the power of a dimmer of a present group from the same power output,
\* and a dimmer power that shares its output with a shade power is the
\* valve power of the thermostat.
NoOutputFeedsShadeAndGroupDimmer ==
    \A o \in 1..Len(objs) :
        SchemaRegistered(o) =>
            /\ PairsHaveOneOwner(o)
            /\ \A j \in 0..3 : \A s \in 1..2, k \in 1..4 :
                   (/\ HoldsOutput(objs[o], ShadeId(s) \o "Power", j)
                    /\ HoldsOutput(objs[o], DimmerId(k) \o "Power", j))
                   => /\ ~HasDimmerGroup(objs[o].puck.dip, GroupOf(k))
                      /\ objs[o].thermostat
                      /\ k = objs[o].thermostatOutput + 1

\* A poll has written the power of shutter 2 and of dimmers 1 and 2 of a
\* puck with code 1, each from an output of its own pair.
ShadeAndDimmerPowerSeen ==
    /\ last.op = "pollDone"
    /\ last.ret = "applied"
    /\ objs[last.obj].puck.dip = 1
    /\ HoldsOutput(objs[last.obj], "shade2Power", 2)
    /\ HoldsOutput(objs[last.obj], "dimmer1Power", 0)
    /\ HoldsOutput(objs[last.obj], "dimmer2Power", 1)

====
